---- MODULE Spec2Model ----
(***************************************************************************)
(* Workflow execution core of leeeduke/SomeBot (langbot.pkg.workflow):     *)
(* the graph executor (executor.py), the node factory and wrapper          *)
(* (nodes/__init__.py), the built-in node handlers (nodes/builtin) and the  *)
(* part of the workflow manager that starts executions (manager.py).       *)
(*                                                                         *)
(* Python values are modelled as follows.                                  *)
(*   - str, None, True, False: TLA+ strings; None, True and False are the  *)
(*     sentinels NoneVal, TrueVal, FalseVal, which no Python str equals.   *)
(*   - a value of an enum-typed field: a record [repr, v]; repr = "member" *)
(*     is the enum member, repr = "str" its value string.  The pydantic    *)
(*     models are declared with use_enum_values=True, so a validated field *)
(*     holds the value string while an assigned or defaulted field holds   *)
(*     the member; a member never compares equal to a str.                 *)
(*   - a dict, or the fields of a config model: a function from keys to    *)
(*     values.                                                             *)
(*   - a reference to a dict object that several places share: a token.   *)
(*     DefaultRef is the dict given as the default of a workflow variable  *)
(*     (its items are default_object), OutputRef(id) the dict stored as    *)
(*     the output of node id.                                              *)
(***************************************************************************)
EXTENDS Integers, Sequences, FiniteSets, TLC

\* ------------------------------------------------------------------ bounds
\* number of execute calls (asyncio tasks) that may overlap
MaxExecs == 2

\* number of WorkflowExecutor objects that may be constructed
MaxExecutors == 2

Procs == 1..MaxExecs

\* the calls of manager and store operations, each made once
MaxTasks == 3

Tasks == 1..MaxTasks

\* the items of the dict object that the workflow definition holds as the
\* default of its variable d; executions receive the object, not a copy
VARIABLE default_object

\* ------------------------------------------------------- Python primitives
NoneVal == "<None>"
TrueVal == "<True>"
FalseVal == "<False>"

\* the dict object behind default_object
DefaultRef == "<default>"

\* the dict object stored in node_outputs under id
OutputRef(id) == "<output " \o id \o ">"

\* d[key] = value on a dict
SetItem(d, key, value) ==
    [k \in DOMAIN d \cup {key} |-> IF k = key THEN value ELSE d[k]]

\* str() of the dicts default_object can be
DictRepr(d) == IF DOMAIN d = {} THEN "{}" ELSE "{'b': 'ok'}"

\* an enum member, as held by a field that was assigned or defaulted
Member(v) == [repr |-> "member", v |-> v]

\* a plain str, as held by a validated field under use_enum_values=True
StrVal(v) == [repr |-> "str", v |-> v]

\* pydantic validation of an enum field of a model with use_enum_values=True
UseEnumValues(x) == StrVal(x.v)

\* the int whose str() is text
IntVal(text) == "<int " \o text \o ">"

\* dict.get(key, default) / getattr(obj, key, default) on a function
Get(d, key, default) == IF key \in DOMAIN d THEN d[key] ELSE default

\* Python truthiness of a str-or-None value
Truthy(v) ==
    /\ v # NoneVal /\ v # "" /\ v # FalseVal
    /\ v = DefaultRef => DOMAIN default_object # {}

\* the characters of the strings that the model's inputs can contain
Chars(s) ==
    CASE s = "" -> <<>>
      [] s = "/" -> <<"/">>
      [] s = "!" -> <<"!">>
      [] s = "/run x" -> <<"/", "r", "u", "n", " ", "x">>
      [] s = "/run" -> <<"/", "r", "u", "n">>
      [] s = "hello" -> <<"h", "e", "l", "l", "o">>
      [] s = "chat" -> <<"c", "h", "a", "t">>
      [] s = "command" -> <<"c", "o", "m", "m", "a", "n", "d">>
      [] s = "ok" -> <<"o", "k">>
      [] s = "None" -> <<"N", "o", "n", "e">>
      [] s = "True" -> <<"T", "r", "u", "e">>
      [] s = "False" -> <<"F", "a", "l", "s", "e">>
      [] s = "{}" -> <<"{", "}">>
      [] s = "w_" -> <<"w", "_">>
      [] s = "w_n" -> <<"w", "_", "n">>
      [] s = "w_m" -> <<"w", "_", "m">>
      [] s = "w_x_" -> <<"w", "_", "x", "_">>
      [] s = "w_x_n" -> <<"w", "_", "x", "_", "n">>
      [] s = "w_x_m" -> <<"w", "_", "x", "_", "m">>
      [] s = "{'b': 'ok'}" -> <<"{", "'", "b", "'", ":", " ", "'", "o", "k", "'", "}">>
      [] OTHER -> <<s>>

\* str(v)
PyStr(v) ==
    CASE v = NoneVal -> "None"
      [] v = TrueVal -> "True"
      [] v = FalseVal -> "False"
      [] v = DefaultRef -> DictRepr(default_object)
      [] v = IntVal("5") -> "5"
      [] v = IntVal("9") -> "9"
      [] OTHER -> v

\* float(v) raises: TypeError on None and on a dict, ValueError on a str
\* that is no number
FloatRaises(v) == v \notin {"5", "9", IntVal("5"), IntVal("9"), TrueVal, FalseVal}

\* float(v) for the numbers of the model
Float(v) ==
    CASE v \in {"5", IntVal("5")} -> 5
      [] v \in {"9", IntVal("9")} -> 9
      [] v = TrueVal -> 1
      [] OTHER -> 0

\* str.startswith
StartsWith(s, prefix) ==
    LET cs == Chars(s)
        cp == Chars(prefix)
    IN  /\ Len(cp) <= Len(cs)
        /\ SubSeq(cs, 1, Len(cp)) = cp

\* "needle in hay" on two str
StrContains(needle, hay) ==
    LET cn == Chars(needle)
        ch == Chars(hay)
    IN  \E i \in 0..(Len(ch) - Len(cn)) : SubSeq(ch, i + 1, i + Len(cn)) = cn

\* str.split()[0] for the message contents of the model
FirstToken(s) ==
    CASE s = "/run x" -> "/run"
      [] OTHER -> s

\* ------------------------------------------------------------ entity model
NodeTypeValues ==
    {"event_start", "schedule_start", "condition", "branch", "loop",
     "http_request", "binary_storage", "file_storage", "json_processor",
     "reply_message", "tool_action", "set_variable", "get_variable",
     "chat_command_branch", "end"}

WorkflowStatusValues == {"draft", "active", "inactive", "archived"}

WorkflowTriggerTypeValues ==
    {"person_message", "group_message", "scheduled", "manual", "api"}

\* None in the int-typed field retry
NoRetry == -1

\* the common fields every NodeConfig model carries
NodeConfig(error_handler) ==
    [timeout |-> NoneVal, retry |-> NoRetry, error_handler |-> error_handler]

\* a WorkflowNode: type is a [repr, v] value of NodeType, shape tells whether
\* config is a pydantic model ("model") or a plain dict ("dict"), cfg holds
\* the fields of the model or the items of the dict
WorkflowNode(id, type, shape, cfg) ==
    [id |-> id, type |-> type, shape |-> shape, cfg |-> cfg]

\* edge.condition is None
NoCondition == [none |-> TRUE]

EdgeCondition(field, operator, value) ==
    [field |-> field, operator |-> operator, value |-> value]

WorkflowEdge(source, target, label, condition) ==
    [source |-> source, target |-> target, label |-> label,
     condition |-> condition]

Workflow(nodes, edges, trigger_types, variables) ==
    [nodes |-> nodes, edges |-> edges, trigger_types |-> trigger_types,
     variables |-> variables]

\* a fresh WorkflowContext; trigger goes through validation
WorkflowContext(trigger, trigger_data) ==
    [trigger |-> UseEnumValues(trigger),
     trigger_data |-> trigger_data,
     variables |-> <<>>,
     node_outputs |-> <<>>,
     current_node |-> NoneVal,
     executed_nodes |-> <<>>,
     errors |-> <<>>]

\* -------------------------------------------------- the workflows explored
\* how the nodes of a workflow hold their type: "member" for nodes whose
\* type was assigned, "str" for nodes that went through validation
Reprs == {"member", "str"}

ErrorHandlers == {NoneVal, "stop", "skip", "continue"}

NT(repr, v) == [repr |-> repr, v |-> v]

EventStart(id, repr, trigger_type) ==
    WorkflowNode(id, NT(repr, "event_start"), "model",
                 NodeConfig(NoneVal) @@ [trigger_type |-> trigger_type, filters |-> NoneVal])

\* an event_start node whose config is a dict: it has no attribute trigger_type
EventStartDict(id, repr, trigger_type) ==
    WorkflowNode(id, NT(repr, "event_start"), "dict", [trigger_type |-> trigger_type])

ScheduleStart(id, repr) ==
    WorkflowNode(id, NT(repr, "schedule_start"), "dict", [cron_expression |-> "* * * * *"])

ReplyMessage(id, repr) ==
    WorkflowNode(id, NT(repr, "reply_message"), "model",
                 NodeConfig(NoneVal) @@ [content |-> "ok"])

\* a reply whose content is a template over the workflow variable name
ReplyTemplate(id, repr) ==
    WorkflowNode(id, NT(repr, "reply_message"), "model",
                 NodeConfig(NoneVal) @@ [content |-> "hi {{name}}"])

HttpRequest(id, repr, eh) ==
    WorkflowNode(id, NT(repr, "http_request"), "model",
                 NodeConfig(eh) @@ [method |-> "GET", url |-> "bad"])

\* get_variable with a dict config
GetVariableDict(id, repr, name) ==
    WorkflowNode(id, NT(repr, "get_variable"), "dict", [variable_name |-> name])

\* json_processor with a dict config
JsonProcessorDict(id, repr, operation, path, value) ==
    WorkflowNode(id, NT(repr, "json_processor"), "dict",
                 [operation |-> operation, path |-> path, value |-> value])

\* json_processor with its declared JsonProcessorConfig model
JsonProcessorModel(id, repr, operation, path, value) ==
    WorkflowNode(id, NT(repr, "json_processor"), "model",
                 NodeConfig(NoneVal) @@ [operation |-> operation, path |-> path,
                                         value |-> value])

\* the node with retry = retry in its config
WithRetry(n, retry) == [n EXCEPT !.cfg = SetItem(@, "retry", retry)]

\* a node type of NodeType that NODE_REGISTRY does not know
LoopNode(id, repr, eh) ==
    WorkflowNode(id, NT(repr, "loop"), "model", NodeConfig(eh))

\* set_variable with its declared VariableConfig model
SetVariableModel(id, repr, eh) ==
    WorkflowNode(id, NT(repr, "set_variable"), "model",
                 NodeConfig(eh) @@ [variable_name |-> "v", value |-> "ok", default |-> NoneVal])

SetVariableDict(id, repr, name) ==
    WorkflowNode(id, NT(repr, "set_variable"), "dict", [variable_name |-> name, value |-> "ok"])

ToolActionDict(id, repr, cfg) ==
    WorkflowNode(id, NT(repr, "tool_action"), "dict", cfg)

ChatCommandBranch(id, repr, prefix) ==
    WorkflowNode(id, NT(repr, "chat_command_branch"), "dict", [command_prefix |-> prefix])

\* a clause of ConditionConfig.conditions that went through validation: an
\* EdgeCondition model
ModelClause(field, operator, value) ==
    [shape |-> "model", field |-> field, operator |-> operator, value |-> value]

\* a clause without the key "type" fails EdgeCondition's validation, the
\* config falls through to NodeConfig and keeps the clause as the dict given
DictClause(field, operator, value) ==
    [shape |-> "dict", field |-> field, operator |-> operator, value |-> value]

\* a condition node; clauses is the list config.conditions
Condition(id, repr, eh, clauses) ==
    WorkflowNode(id, NT(repr, "condition"), "model",
                 NodeConfig(eh) @@ [conditions |-> clauses, default_branch |-> NoneVal])

EndNode(id, repr) ==
    WorkflowNode(id, NT(repr, "end"), "model", NodeConfig(NoneVal))

E(source, target) == WorkflowEdge(source, target, NoneVal, NoCondition)

EL(source, target, label) == WorkflowEdge(source, target, label, NoCondition)

PersonOnly == <<StrVal("person_message")>>

\* start -> m -> reply, for the kinds of middle node that can fail
ChainWorkflows ==
    {Workflow(<<EventStart("s", "member", "person_message"), m, ReplyMessage("r", "member")>>,
              <<E("s", "m"), E("m", "r")>>, PersonOnly, <<>>) :
        m \in {HttpRequest("m", "member", eh) : eh \in ErrorHandlers}
              \cup {LoopNode("m", "member", eh) : eh \in ErrorHandlers}
              \cup {SetVariableModel("m", "member", eh) : eh \in ErrorHandlers}
              \cup {ToolActionDict("m", "member", <<>>),
                    ToolActionDict("m", "member", [tool_id |-> "t"]),
                    SetVariableDict("m", "member", "v"),
                    SetVariableDict("m", "member", NoneVal)}}

\* start -> a, start -> b, a -> j, b -> j
DiamondWorkflows ==
    {Workflow(<<EventStart("s", "member", "person_message"), ReplyMessage("a", "member"),
                ReplyMessage("b", "member"), j, EndNode("r", "member")>>,
              <<E("s", "a"), E("s", "b"), E("a", "j"), E("b", "j"), E("j", "r")>>,
              PersonOnly, [v |-> "world"]) :
        j \in {ReplyMessage("j", "member"), HttpRequest("j", "member", "continue")}
              \cup {SetVariableModel("j", "member", eh) : eh \in ErrorHandlers}}

\* start -> c, c -command-> r1, c -chat-> r2, c -> r3
BranchWorkflows ==
    {Workflow(<<EventStart("s", "member", "person_message"), c, ReplyMessage("r1", "member"),
                ReplyMessage("r2", "member"), ReplyMessage("r3", "member")>>,
              <<E("s", "c"), EL("c", "r1", "command"), EL("c", "r2", "chat"), E("c", "r3")>>,
              PersonOnly, <<>>) :
        c \in {ChatCommandBranch("c", "member", "/"), ChatCommandBranch("c", "member", "!"),
               Condition("c", "member", NoneVal, <<>>),
               Condition("c", "member", "stop", <<ModelClause("content", "equals", "hello")>>)}}

\* start -> c, c -true-> r1, c -false-> r2, for a condition node c whose
\* clauses combine to false, to true, or are none
ConditionBranchWorkflows ==
    {Workflow(<<EventStart("s", repr, "person_message"),
                Condition("c", repr, NoneVal, clauses),
                ReplyMessage("r1", repr), ReplyMessage("r2", repr)>>,
              <<E("s", "c"), EL("c", "r1", "true"), EL("c", "r2", "false")>>,
              PersonOnly, <<>>) :
        repr \in Reprs,
        clauses \in {<<>>, <<DictClause("content", "not_equals", "hello")>>,
                     <<DictClause("content", "equals", "hello")>>}}

\* graphs whose queue can hold nodes that never become ready, and edges that
\* name nodes the workflow does not have
StarvingWorkflows ==
    {Workflow(<<EventStart("s", "member", "person_message"), ReplyMessage("b", "member")>>,
              <<E("s", "b"), E("x", "b")>>, PersonOnly, <<>>),
     Workflow(<<EventStart("s", "member", "person_message"), ReplyMessage("a", "member"),
                ReplyMessage("b", "member")>>,
              <<E("s", "a"), E("a", "b"), E("b", "a")>>, PersonOnly, <<>>),
     Workflow(<<EventStart("s", "member", "person_message"), ReplyMessage("a", "member")>>,
              <<E("s", "a"), E("s", "x"), E("a", "s")>>, PersonOnly, <<>>),
     Workflow(<<EventStart("s", "member", "person_message"), ReplyMessage("a", "member")>>,
              <<E("a", "s")>>, PersonOnly, <<>>),
     Workflow(<<EventStart("s", "member", "person_message"), ReplyMessage("a", "member"),
                ReplyMessage("b", "member")>>,
              <<E("s", "a"), E("s", "b"), E("b", "a")>>, PersonOnly, <<>>)}

\* a person_message path through a request and a group_message path, in one
\* workflow
TwoTriggerWorkflows ==
    {Workflow(<<EventStart("s1", "member", "person_message"),
                EventStart("s2", "member", "group_message"),
                HttpRequest("h", "member", NoneVal), SetVariableDict("r1", "member", "v"),
                ReplyMessage("r2", "member")>>,
              <<E("s1", "h"), E("h", "r1"), E("s2", "r2")>>,
              <<Member("person_message"), Member("group_message")>>, [v |-> "world"])}

\* several start nodes, one per kind of trigger
MultiStart(repr, s4, tt) ==
    Workflow(<<EventStart("s1", repr, "person_message"), EventStart("s2", repr, "group_message"),
               ScheduleStart("s3", repr), s4,
               ReplyMessage("r1", repr), ReplyMessage("r2", repr), EndNode("r3", repr),
               EndNode("r4", repr)>>,
             <<E("s1", "r1"), E("s2", "r2"), E("s3", "r3"), E("s4", "r4")>>,
             tt, <<>>)

MultiStartWorkflows ==
    {MultiStart("member", EventStartDict("s4", "member", "person_message"),
                <<Member("person_message"), Member("scheduled")>>),
     MultiStart("member", EventStart("s4", "member", "scheduled"),
                <<StrVal("person_message"), StrVal("scheduled")>>),
     MultiStart("str", EventStart("s4", "str", "scheduled"),
                <<StrVal("person_message"), StrVal("scheduled")>>)}

\* edges that carry a condition on the start node's output
ConditionalEdgeWorkflows ==
    {Workflow(<<EventStart("s", "member", "person_message"), ReplyMessage("a", "member"),
                EndNode("b", "member")>>,
              <<WorkflowEdge("s", "a", NoneVal, c), E("s", "b"), E("a", "b")>>, PersonOnly, <<>>) :
        c \in {EdgeCondition("content", op, "/run") :
                  op \in {"equals", "not_equals", "contains"}}
              \cup {EdgeCondition("content", "regex", "hello"),
                    EdgeCondition("content", "contains", NoneVal),
                    EdgeCondition("missing", NoneVal, NoneVal)}}

\* nodes that went through validation hold their type as a str
ValidatedWorkflows ==
    {Workflow(<<EventStart("s", "str", "person_message"), ReplyMessage("r", "str")>>,
              <<E("s", "r")>>, PersonOnly, <<>>)}

\* start -> r1 -> r2 with a template reply and a plain one, and the variable
\* the template names declared with a default
ReplyWorkflows ==
    {Workflow(<<EventStart("s", repr, "person_message"), ReplyTemplate("r1", repr),
                ReplyMessage("r2", repr)>>,
              <<E("s", "r1"), E("r1", "r2")>>, PersonOnly, [name |-> "world"]) :
        repr \in Reprs}

\* json_processor nodes: one writing into the dict a variable holds, with a
\* conditional edge that reads that dict; one writing into the start node's
\* output; one extracting from it; one with a config model
JsonWorkflows ==
    {Workflow(<<EventStart("s", "member", "person_message"), GetVariableDict("g", "member", "d"),
                JsonProcessorDict("j", "member", "set", "value.b", "ok"),
                EndNode("r", "member")>>,
              <<E("s", "g"), E("g", "j"),
                WorkflowEdge("g", "r", NoneVal, EdgeCondition("value", "contains", "ok"))>>,
              PersonOnly, [d |-> DefaultRef])}
    \cup
    {Workflow(<<EventStart("s", "member", "person_message"), j, EndNode("r", "member")>>,
              <<E("s", "j"), E("j", "r")>>, PersonOnly, <<>>) :
        j \in {JsonProcessorDict("j", "member", "set", "content", "ok"),
               JsonProcessorDict("j", "member", "extract", "content", NoneVal),
               JsonProcessorDict("j", "member", "SET", "content.b", "ok"),
               JsonProcessorDict("j", "member", "serialize", NoneVal, NoneVal),
               JsonProcessorDict("j", "member", "deserialize", NoneVal, NoneVal),
               JsonProcessorModel("j", "member", "set", "content", "ok")}}

\* start -> m -> reply, for a middle node that fails and is configured with
\* retries
RetryWorkflows ==
    {Workflow(<<EventStart("s", "member", "person_message"), WithRetry(m, 2),
                ReplyMessage("r", "member")>>,
              <<E("s", "m"), E("m", "r")>>, PersonOnly, <<>>) :
        m \in {SetVariableModel("m", "member", "stop"), LoopNode("m", "member", "skip"),
               SetVariableDict("m", "member", NoneVal), HttpRequest("m", "member", "stop")}}

Catalog ==
    ChainWorkflows \cup DiamondWorkflows \cup BranchWorkflows \cup StarvingWorkflows
        \cup MultiStartWorkflows \cup ConditionalEdgeWorkflows \cup ValidatedWorkflows
        \cup TwoTriggerWorkflows

\* start -> j and start -> a -> j, where j is a template reply or a condition
JoinWorkflows ==
    {Workflow(<<EventStart("s", "member", "person_message"), ReplyMessage("a", "member"), j>>,
              <<E("s", "j"), E("s", "a"), E("a", "j")>>,
              PersonOnly, [name |-> "world"]) :
        j \in {ReplyTemplate("j", "member"),
               Condition("j", "member", NoneVal, <<DictClause("content", "equals", "hello")>>)}}

\* an edge with a condition out of a node that is skipped after its failure,
\* out of a node that succeeds, and into a second start node
GuardedWorkflows ==
    {Workflow(<<EventStart("s", "member", "person_message"), m, ReplyMessage("r", "member")>>,
              <<E("s", "m"),
                WorkflowEdge("m", "r", NoneVal, EdgeCondition("content", "equals", "/run"))>>,
              PersonOnly, <<>>) :
        m \in {SetVariableModel("m", "member", "skip"), ReplyMessage("m", "member")}}
    \cup
    {Workflow(<<EventStart("s", "member", "person_message"),
                EventStart("s2", "member", "person_message")>>,
              <<WorkflowEdge("s", "s2", NoneVal, EdgeCondition("content", "equals", "/run"))>>,
              PersonOnly, <<>>)}

\* the workflows that exercise single node handlers
HandlerCatalog ==
    ConditionBranchWorkflows \cup ReplyWorkflows \cup JsonWorkflows \cup RetryWorkflows
        \cup JoinWorkflows \cup GuardedWorkflows

\* ------------------------------------------------------------ node handlers
\* NODE_REGISTRY: the node types create_node can instantiate
NODE_REGISTRY ==
    {"event_start", "reply_message", "condition", "http_request", "schedule_start",
     "json_processor", "set_variable", "get_variable", "chat_command_branch",
     "tool_action", "end"}

\* create_node raises ValueError for a type the registry does not hold
CreateNodeRaises(n) == n.type.v \notin NODE_REGISTRY

\* "config = self.node.config or {}; config.get(key, default)": a pydantic
\* model has no attribute get
DictGetRaises(n) == n.shape = "model"

\* "config.name" on the node's config: a dict has no such attribute, a model
\* only the fields it carries
AttrRaises(n, name) == n.shape # "model" \/ name \notin DOMAIN n.cfg

\* what a handler does: it raises, or it returns (status, output), possibly
\* after writing context.variables
Raised(error, c) ==
    [raised |-> TRUE, error |-> error, status |-> "failed", output |-> <<>>,
     variables |-> c.variables, node_outputs |-> c.node_outputs,
     trigger_data |-> c.trigger_data, default_object |-> default_object]

Returned(status, output, c) ==
    [raised |-> FALSE, error |-> "", status |-> status, output |-> output,
     variables |-> c.variables, node_outputs |-> c.node_outputs,
     trigger_data |-> c.trigger_data, default_object |-> default_object]

\* output of the most recently executed node, or None
LastOutput(c) ==
    IF c.executed_nodes = <<>> THEN NoneVal
    ELSE Get(c.node_outputs, c.executed_nodes[Len(c.executed_nodes)], NoneVal)

EventStartNode(n, c) == Returned("success", c.trigger_data, c)

ScheduleStartNode(n, c) ==
    IF DictGetRaises(n) THEN Raised("AttributeError", c)
    ELSE Returned("success",
                  [triggered_at |-> "now",
                   cron_expression |-> Get(n.cfg, "cron_expression", "0 * * * *"),
                   timezone |-> Get(n.cfg, "timezone", "UTC")], c)

\* f"{{{{{var_name}}}}}"
Placeholder(var_name) == "{{" \o var_name \o "}}"

\* a str as the sequence of its placeholders and the texts between them
Tokens(s) ==
    CASE s = "" -> <<>>
      [] s = "hi {{name}}" -> <<"hi ", "{{name}}">>
      [] OTHER -> <<s>>

\* "".join(tokens)
RECURSIVE JoinTokens(_)
JoinTokens(tokens) ==
    IF tokens = <<>> THEN "" ELSE Head(tokens) \o JoinTokens(Tail(tokens))

\* str.replace(Placeholder(var_name), value) on the tokens of a str: every
\* occurrence is replaced by the tokens of value
RECURSIVE ReplaceTokens(_, _, _)
ReplaceTokens(tokens, var_name, value) ==
    IF tokens = <<>> THEN <<>>
    ELSE (IF Head(tokens) = Placeholder(var_name) THEN value ELSE <<Head(tokens)>>)
             \o ReplaceTokens(Tail(tokens), var_name, value)

\* content.replace("{{" + var_name + "}}", value)
Replace(content, var_name, value) ==
    JoinTokens(ReplaceTokens(Tokens(content), var_name, Tokens(value)))

\* "for var_name, var in context.variables.items():
\*      content = content.replace(..., str(var.value))" on the tokens of
\* content; items are the (var_name, value) pairs in the order of the dict
RECURSIVE SubstituteTokens(_, _)
SubstituteTokens(tokens, items) ==
    IF items = <<>> THEN tokens
    ELSE SubstituteTokens(ReplaceTokens(tokens, items[1][1], Tokens(PyStr(items[1][2]))),
                          Tail(items))

\* the items of context.variables
RECURSIVE VariableItems(_, _)
VariableItems(variables, names) ==
    IF names = {} THEN <<>>
    ELSE LET var_name == CHOOSE k \in names : TRUE
         IN  <<<<var_name, variables[var_name]>>>> \o VariableItems(variables, names \ {var_name})

\* the loop of replacements over context.variables.items()
Substitute(content, variables, names) ==
    JoinTokens(SubstituteTokens(Tokens(content), VariableItems(variables, names)))

ReplyMessageNode(n, c) ==
    IF AttrRaises(n, "content") THEN Raised("AttributeError", c)
    ELSE Returned("success",
                  [message_sent |-> TrueVal,
                   content |-> Substitute(n.cfg.content, c.variables, DOMAIN c.variables)], c)

\* the part of HttpRequestNode.execute that runs before the request is sent
HttpRequestRaises(n) == AttrRaises(n, "method") \/ AttrRaises(n, "url")

\* the part after the request: io is how the request went
HttpRequestNode(n, c, io) ==
    IF io = "ok" THEN Returned("success", [status |-> "200", headers |-> "", body |-> "ok"], c)
    ELSE Returned("failed", [error |-> "ClientError"], c)

\* one clause of ConditionNode.execute against the node's own output
ClauseResult(condition, prev_output) ==
    LET field_value == Get(prev_output, condition.field, NoneVal)
        compare_value == condition.value
    IN  CASE condition.operator = "equals" -> PyStr(field_value) = PyStr(compare_value)
          [] condition.operator = "not_equals" -> PyStr(field_value) # PyStr(compare_value)
          [] condition.operator = "contains" ->
                 StrContains(PyStr(compare_value), PyStr(field_value))
          [] condition.operator = "greater_than" -> Float(field_value) > Float(compare_value)
          [] condition.operator = "less_than" -> Float(field_value) < Float(compare_value)
          [] OTHER -> FALSE

\* float() of an operand of greater_than or less_than raises
ClauseRaises(condition, prev_output) ==
    /\ condition.operator \in {"greater_than", "less_than"}
    /\ \/ FloatRaises(Get(prev_output, condition.field, NoneVal))
       \/ FloatRaises(condition.value)

\* "condition['field']" raises TypeError on an EdgeCondition model; the
\* clauses are read from the output stored under the node's own id
ConditionNode(n, c) ==
    IF AttrRaises(n, "conditions") THEN Raised("AttributeError", c)
    ELSE IF \E i \in DOMAIN n.cfg.conditions : n.cfg.conditions[i].shape = "model"
    THEN Raised("TypeError", c)
    ELSE IF \E i \in DOMAIN n.cfg.conditions :
                ClauseRaises(n.cfg.conditions[i], Get(c.node_outputs, n.id, <<>>))
    THEN Raised("ValueError", c)
    ELSE LET conditions == n.cfg.conditions
             prev_output == Get(c.node_outputs, n.id, <<>>)
             logic == Get(n.cfg, "logic", "and")
             final_result ==
                 IF conditions = <<>> THEN FALSE
                 ELSE IF logic = "and"
                 THEN \A i \in DOMAIN conditions : ClauseResult(conditions[i], prev_output)
                 ELSE \E i \in DOMAIN conditions : ClauseResult(conditions[i], prev_output)
         IN  Returned("success",
                      [result |-> IF final_result THEN TrueVal ELSE FalseVal], c)

ChatCommandBranchNode(n, c) ==
    IF DictGetRaises(n) THEN Raised("AttributeError", c)
    ELSE LET command_prefix == Get(n.cfg, "command_prefix", "/")
             message_content == Get(c.trigger_data, "content", "")
         IN  IF StartsWith(message_content, command_prefix)
             THEN Returned("success",
                           [type |-> "command", command |-> FirstToken(message_content),
                            branch |-> "command"], c)
             ELSE Returned("success",
                           [type |-> "chat", content |-> message_content,
                            branch |-> "chat"], c)

SetVariableNode(n, c) ==
    IF DictGetRaises(n) THEN Raised("AttributeError", c)
    ELSE LET variable_name == Get(n.cfg, "variable_name", NoneVal)
             given == Get(n.cfg, "value", NoneVal)
             value == IF given = NoneVal /\ c.executed_nodes # <<>> THEN LastOutput(c) ELSE given
         IN  IF ~Truthy(variable_name)
             THEN Returned("failed", [error |-> "Variable name is required"], c)
             ELSE [Returned("success", [variable |-> variable_name, value |-> value], c)
                     EXCEPT !.variables = [k \in DOMAIN c.variables \cup {variable_name} |->
                                              IF k = variable_name THEN value ELSE c.variables[k]]]

GetVariableNode(n, c) ==
    IF DictGetRaises(n) THEN Raised("AttributeError", c)
    ELSE LET variable_name == Get(n.cfg, "variable_name", NoneVal)
         IN  IF ~Truthy(variable_name)
             THEN Returned("failed", [error |-> "Variable name is required"], c)
             ELSE Returned("success",
                           [variable |-> variable_name,
                            value |-> Get(c.variables, variable_name,
                                          Get(n.cfg, "default", NoneVal))], c)

ToolActionNode(n, c) ==
    IF DictGetRaises(n) THEN Raised("AttributeError", c)
    ELSE IF ~Truthy(Get(n.cfg, "tool_id", NoneVal))
         THEN Returned("failed", [error |-> "Tool ID is required"], c)
         ELSE Returned("success",
                       [tool_id |-> n.cfg.tool_id, parameters |-> "",
                        result |-> "Tool execution placeholder"], c)

\* path.split(".") for the paths explored
Split(path) ==
    CASE path = "value.b" -> <<"value", "b">>
      [] path = "content.b" -> <<"content", "b">>
      [] OTHER -> <<path>>

\* _get_input_data: the dict stored as the output of the last executed node,
\* or a new empty dict
HasInput(c) ==
    /\ c.executed_nodes # <<>>
    /\ c.executed_nodes[Len(c.executed_nodes)] \in DOMAIN c.node_outputs

InputNode(c) == c.executed_nodes[Len(c.executed_nodes)]

GetInputData(c) == IF HasInput(c) THEN c.node_outputs[InputNode(c)] ELSE <<>>

\* isinstance(value, dict) for a value found in a dict, and the items of it
IsDict(value, c) ==
    value = DefaultRef \/ \E id \in DOMAIN c.node_outputs : value = OutputRef(id)

Items(value, c) ==
    IF value = DefaultRef THEN default_object
    ELSE c.node_outputs[CHOOSE id \in DOMAIN c.node_outputs : value = OutputRef(id)]

\* the walk of _extract_value along the parts of the path
RECURSIVE ExtractValue(_, _, _)
ExtractValue(d, parts, c) ==
    LET value == Get(d, Head(parts), NoneVal)
    IN  IF Len(parts) = 1 THEN value
        ELSE IF IsDict(value, c) THEN ExtractValue(Items(value, c), Tail(parts), c)
        ELSE NoneVal

\* _set_value for paths of one or two parts: the dicts on the path are
\* written in place
JsonSetValue(n, c) ==
    LET path == Get(n.cfg, "path", "")
        value == Get(n.cfg, "value", NoneVal)
        parts == Split(path)
        input_data == GetInputData(c)
        result == IF HasInput(c) THEN OutputRef(InputNode(c)) ELSE NoneVal
        done == Returned("success", [result |-> result], c)
    IN  IF ~Truthy(path)
        THEN Returned("success", [error |-> "Path is required for set operation"], c)
        ELSE IF Len(parts) = 1
        THEN IF HasInput(c)
             THEN [done EXCEPT !.node_outputs =
                                  SetItem(@, InputNode(c), SetItem(input_data, parts[1], value))]
             ELSE Returned("success", [result |-> SetItem(<<>>, parts[1], value)], c)
        ELSE IF parts[1] \notin DOMAIN input_data
        THEN IF HasInput(c)
             THEN [done EXCEPT !.node_outputs =
                                  SetItem(@, InputNode(c),
                                          SetItem(input_data, parts[1],
                                                  SetItem(<<>>, parts[2], value)))]
             ELSE Returned("success",
                           [result |-> SetItem(<<>>, parts[1], SetItem(<<>>, parts[2], value))],
                           c)
        ELSE LET current == input_data[parts[1]]
             IN  IF current = DefaultRef
                 THEN [done EXCEPT !.default_object = SetItem(@, parts[2], value)]
                 ELSE IF IsDict(current, c)
                 THEN LET id == CHOOSE id \in DOMAIN c.node_outputs : current = OutputRef(id)
                      IN  [done EXCEPT !.node_outputs =
                                           SetItem(@, id, SetItem(c.node_outputs[id], parts[2],
                                                                  value))]
                 ELSE Returned("failed", [error |-> "TypeError"], c)

\* json.dumps of the dicts a start node returns
JsonDumps(d) ==
    CASE DOMAIN d = {} -> "{}"
      [] DOMAIN d = {"content"} -> "{\"content\": \"" \o d.content \o "\"}"
      [] DOMAIN d = {"cron"} -> "{\"cron\": \"" \o d.cron \o "\"}"

JsonProcessorNode(n, c) ==
    IF DictGetRaises(n) THEN Raised("AttributeError", c)
    ELSE LET operation == Get(n.cfg, "operation", "extract")
             lower == IF operation = "SET" THEN "set" ELSE operation
         IN  CASE lower = "extract" ->
                    IF ~Truthy(Get(n.cfg, "path", ""))
                    THEN Returned("success",
                                  [error |-> "Path is required for extract operation"], c)
                    ELSE Returned("success",
                                  [value |-> ExtractValue(GetInputData(c),
                                                          Split(n.cfg.path), c),
                                   path |-> n.cfg.path], c)
               [] lower = "set" -> JsonSetValue(n, c)
               [] lower = "serialize" ->
                    Returned("success", [json_string |-> JsonDumps(GetInputData(c))], c)
               [] lower = "deserialize" ->
                    Returned("success",
                             [data |-> IF HasInput(c) THEN OutputRef(InputNode(c))
                                       ELSE NoneVal], c)
               [] OTHER -> Returned("failed", [error |-> "Unknown operation"], c)

EndNodeExecute(n, c) == Returned("success", [completed |-> TrueVal, completed_at |-> "now"], c)

\* the handlers that return without suspending on I/O
Execute(n, c) ==
    CASE n.type.v = "event_start" -> EventStartNode(n, c)
      [] n.type.v = "schedule_start" -> ScheduleStartNode(n, c)
      [] n.type.v = "reply_message" -> ReplyMessageNode(n, c)
      [] n.type.v = "condition" -> ConditionNode(n, c)
      [] n.type.v = "chat_command_branch" -> ChatCommandBranchNode(n, c)
      [] n.type.v = "set_variable" -> SetVariableNode(n, c)
      [] n.type.v = "get_variable" -> GetVariableNode(n, c)
      [] n.type.v = "tool_action" -> ToolActionNode(n, c)
      [] n.type.v = "json_processor" -> JsonProcessorNode(n, c)
      [] n.type.v = "end" -> EndNodeExecute(n, c)

\* the handler awaits a network request
Suspends(n) == n.type.v = "http_request" /\ ~HttpRequestRaises(n)

\* ---------------------------------------------------------- graph executor
\* node_map: the node an id names (ids are unique in the explored workflows)
NodeIds(w) == {w.nodes[i].id : i \in DOMAIN w.nodes}

NodeMap(w, id) == w.nodes[CHOOSE i \in DOMAIN w.nodes : w.nodes[i].id = id]

\* edge_map[id] and reverse_edge_map[id], in the order of workflow.edges
EdgeMap(w, id) == SelectSeq(w.edges, LAMBDA e : e.source = id)

ReverseEdgeMap(w, id) == SelectSeq(w.edges, LAMBDA e : e.target = id)

\* WorkflowExecutor._find_start_nodes: context.trigger is a value string, so
\* it equals a config.trigger_type str but never the member SCHEDULED
IsStartNode(n, c) ==
    /\ n.type \in {Member("event_start"), Member("schedule_start")}
    /\ IF n.type = Member("event_start")
       THEN /\ n.shape = "model"
            /\ "trigger_type" \in DOMAIN n.cfg
            /\ StrVal(n.cfg.trigger_type) = c.trigger
       ELSE /\ n.type = Member("schedule_start")
            /\ c.trigger = Member("scheduled")

FindStartNodes(w, c) ==
    LET starts == SelectSeq(w.nodes, LAMBDA n : IsStartNode(n, c))
    IN  [i \in DOMAIN starts |-> starts[i].id]

\* WorkflowExecutor._are_dependencies_satisfied
AreDependenciesSatisfied(w, id, executed) ==
    LET incoming_edges == ReverseEdgeMap(w, id)
    IN  \A i \in DOMAIN incoming_edges : incoming_edges[i].source \in executed

\* WorkflowExecutor._evaluate_edge_condition; "contains" raises TypeError when
\* the expected value is not a str
EdgeConditionRaises(condition) ==
    /\ condition.operator = "contains"
    /\ condition.value \in {NoneVal, TrueVal, FalseVal, IntVal("5"), IntVal("9")}

EvaluateEdgeCondition(condition, node_output) ==
    LET field_value == Get(node_output, condition.field, NoneVal)
        expected_value == condition.value
    IN  CASE condition.operator = "equals" -> field_value = expected_value
          [] condition.operator = "not_equals" -> field_value # expected_value
          [] condition.operator = "contains" -> StrContains(expected_value, PyStr(field_value))
          [] OTHER -> field_value = expected_value

\* the edges followed after a node has run
NextEdges(w, n, result) ==
    IF n.type = Member("condition")
    THEN LET branch == Get(result, "branch", NoneVal)
         IN  SelectSeq(EdgeMap(w, n.id),
                       LAMBDA e : e.label = branch \/ (~Truthy(e.label) /\ branch = "default"))
    ELSE EdgeMap(w, n.id)

\* "for edge in next_edges": the queue after the edges from position i on
\* have been handled, and whether an edge condition raised on the way
RECURSIVE Enqueue(_, _, _, _, _)
Enqueue(w, edges, i, result, queue) ==
    IF i > Len(edges) THEN [queue |-> queue, raised |-> FALSE]
    ELSE LET edge == edges[i]
         IN  IF edge.target \notin NodeIds(w) THEN Enqueue(w, edges, i + 1, result, queue)
             ELSE IF edge.condition = NoCondition
                  THEN Enqueue(w, edges, i + 1, result, Append(queue, edge.target))
             ELSE IF EdgeConditionRaises(edge.condition)
                  THEN [queue |-> queue, raised |-> TRUE]
             ELSE IF EvaluateEdgeCondition(edge.condition, result)
                  THEN Enqueue(w, edges, i + 1, result, Append(queue, edge.target))
             ELSE Enqueue(w, edges, i + 1, result, queue)

\* the skip policy: every downstream node that exists is queued
RECURSIVE EnqueueAll(_, _, _, _)
EnqueueAll(w, edges, i, queue) ==
    IF i > Len(edges) THEN queue
    ELSE EnqueueAll(w, edges, i + 1,
                    IF edges[i].target \in NodeIds(w) THEN Append(queue, edges[i].target)
                    ELSE queue)

\* getattr(node.config, 'error_handler', 'stop'): a dict has no attributes
ErrorHandlerOf(n) ==
    IF n.shape = "model" THEN Get(n.cfg, "error_handler", "stop") ELSE "stop"

\* the state a loop iteration leaves: the contexts, the loop's locals, and
\* whether the exception leaves _execute_from_nodes
Outcome(cs, executed, skipped, queue, raised, error) ==
    [contexts |-> cs, executed |-> executed, skipped |-> skipped, queue |-> queue,
     raised |-> raised, error |-> error]

\* "except Exception as e" of the loop body; self_context is executor.context
ExceptBranch(w, cs, self_context, n, executed, skipped, queue, error) ==
    LET cs1 == [cs EXCEPT ![self_context].errors =
                    Append(@, [node_id |-> n.id, error |-> error])]
        error_handler == ErrorHandlerOf(n)
    IN  CASE error_handler = "stop" -> Outcome(cs1, executed, skipped, queue, TRUE, error)
          [] error_handler = "skip" ->
               Outcome(cs1, executed, skipped \cup {n.id},
                       EnqueueAll(w, EdgeMap(w, n.id), 1, queue), FALSE, "")
          [] OTHER -> Outcome(cs1, executed, skipped, queue, FALSE, "")

\* every event_start node returned the dict context.trigger_data: what a
\* handler wrote into the output of one of them shows in all of them
ShareTriggerData(w, c, h) ==
    LET starts == {id \in DOMAIN c.node_outputs : NodeMap(w, id).type.v = "event_start"}
        written == {id \in starts : h.node_outputs[id] # c.node_outputs[id]}
    IN  IF written = {} THEN h
        ELSE LET d == h.node_outputs[CHOOSE id \in written : TRUE]
             IN  [h EXCEPT !.trigger_data = d,
                           !.node_outputs = [k \in DOMAIN @ |-> IF k \in starts THEN d ELSE @[k]]]

\* the loop body from the return of the handler on: NodeWrapper.run stores the
\* output in the context the wrapper was created with (wrapper_context), the
\* executor then writes through executor.context (self_context)
AfterHandler(w, cs, self_context, wrapper_context, n, executed, skipped, queue, h) ==
    IF h.raised
    THEN ExceptBranch(w, cs, self_context, n, executed, skipped, queue, h.error)
    ELSE LET shared == ShareTriggerData(w, cs[wrapper_context], h)
             cs1 == [cs EXCEPT ![wrapper_context].variables = h.variables,
                               ![wrapper_context].trigger_data = shared.trigger_data,
                               ![wrapper_context].node_outputs =
                                   SetItem(shared.node_outputs, n.id, h.output)]
             cs2 == [cs1 EXCEPT ![self_context].executed_nodes = Append(@, n.id)]
             executed1 == executed \cup {n.id}
             next == Enqueue(w, NextEdges(w, n, h.output), 1, h.output, queue)
         IN  IF next.raised
             THEN ExceptBranch(w, cs2, self_context, n, executed1, skipped, next.queue,
                               "TypeError")
             ELSE Outcome(cs2, executed1, skipped, next.queue, FALSE, "")

\* a result that reports success whatever the status it is built with
ResultAlwaysSuccess(status, execution_id, c) ==
    [kind |-> "result", status |-> "success", execution_id |-> execution_id,
     outputs |-> c.node_outputs, final_variables |-> c.variables,
     executed_nodes |-> c.executed_nodes, skipped_nodes |-> <<>>, errors |-> c.errors,
     messages_sent |-> Get(c, "messages_sent", <<>>)]

\* WorkflowExecutionResult built from executor.context
Result(status, execution_id, c) ==
    [kind |-> "result", status |-> status, execution_id |-> execution_id,
     outputs |-> c.node_outputs, final_variables |-> c.variables,
     executed_nodes |-> c.executed_nodes, skipped_nodes |-> <<>>, errors |-> c.errors,
     messages_sent |-> Get(c, "messages_sent", <<>>)]

\* the call returned None / returned nothing yet / raised
NoResult == [kind |-> "none"]

RaisedResult(error) == [kind |-> "raised", error |-> error]

\* a status check that turns away inactive workflows only
IsActiveUnlessInactive(workflow_status) == workflow_status.v # "inactive"

\* "workflow.status != WorkflowStatus.ACTIVE" is false: only the member passes
IsActive(workflow_status) == workflow_status = Member("active")

\* ------------------------------------------------------------------- state
VARIABLES
    workflow,           \* the Workflow the manager caches (manager.workflows[id])
    status,             \* workflow.status
    executors,          \* manager.executors[id]: an executor, or 0 for no entry
    num_executors,      \* WorkflowExecutor objects constructed so far
    executor_context,   \* executor.context of each executor: a context, or 0 for None
    contexts,           \* the WorkflowContext objects, named by the call that made them
    active_executions,  \* manager.active_executions, keyed by execution_id
    pc,                 \* where each call is: idle, loop, io (awaiting the request), done
    frame,              \* the locals of each call's execute/_execute_from_nodes
    results,            \* what each call returned
    trace,              \* per call: what it did with each node it took up, in order:
                        \* [node, outcome], outcome being how the handler ended
                        \* (success, failed, raised), entered while it awaits, or
                        \* no_handler when create_node raised
    running             \* the call that holds the event loop, or 0

\* the manager's indices keyed by workflow id, and the store behind
\* WorkflowService
VARIABLES
    workflows,          \* manager.workflows: id -> cached Workflow
    bot_workflows,      \* manager.bot_workflows: bot id -> list of workflow ids
    workflow_executors, \* the keys of manager.executors
    debuggers,          \* the keys of manager.debuggers
    scheduled_tasks,    \* the keys of manager.scheduled_tasks
    store,              \* table workflows: uuid -> row
    execution_records,  \* table workflow_execution_records
    next_uuid,          \* the uuid4 values handed out so far
    tasks               \* the calls of manager and service operations: the
                        \* operation, how far it got, its locals and result

\* the debugger the manager keeps for the workflow, and one export/import
\* exchange through WorkflowSerializer and WorkflowDeserializer
VARIABLES
    debugger,           \* manager.debuggers[workflow.id]: whether it exists,
                        \* its breakpoints and its step_mode
    exchange            \* the workflow handed to to_dict, the dict it made
                        \* and what from_dict made of that dict

\* a WorkflowScheduler and the asyncio tasks it created
VARIABLES
    scheduled_workflows,    \* WorkflowScheduler.scheduled_workflows: key -> task
    asyncio_tasks           \* the tasks made by asyncio.create_task, in order:
                            \* the workflow and node of the _run_scheduled call,
                            \* whether the task was cancelled, whether it ran
                            \* the workflow

scheduler_vars == <<scheduled_workflows, asyncio_tasks>>

\* one application of a function of the handlers to given arguments
VARIABLE
    evaluation          \* the function, its arguments and what it returned

\* the objects behind the manager's dicts, as far as identity matters
VARIABLE
    heap                \* value: the nodes and edges of each Workflow object;
                        \* cached: the object that is workflows[id];
                        \* executor: the workflow object executors[id] holds
                        \* and the nodes and edges its maps were built from;
                        \* held: the object an awaiting call holds

tool_vars == <<debugger, exchange, scheduler_vars, evaluation>>

executor_vars ==
    <<workflow, status, executors, num_executors, executor_context, contexts,
      active_executions, pc, frame, results, trace, running, default_object>>

manager_vars ==
    <<workflows, bot_workflows, workflow_executors, debuggers, scheduled_tasks,
      store, execution_records, next_uuid, tasks, heap>>

vars == <<executor_vars, manager_vars, tool_vars>>

\* the (trigger, trigger_data) pairs of the calls: messages carry their
\* content, the scheduler passes the cron expression
Calls ==
    {<<Member("person_message"), [content |-> "/run x"]>>,
     <<Member("person_message"), [content |-> "hello"]>>,
     <<Member("group_message"), [content |-> "hello"]>>,
     <<Member("scheduled"), [cron |-> "* * * * *"]>>}

\* the (trigger, trigger_data) pairs of the direct calls of executor.execute
DirectCalls ==
    {<<Member("person_message"), [content |-> "hello"]>>,
     <<Member("scheduled"), [cron |-> "* * * * *"]>>}

\* the (event_type, event_data) pairs handle_message_event is called with
Events ==
    {<<"person_message", [content |-> "/run x"]>>,
     <<"group_message", [content |-> "hello"]>>,
     <<"friend_request", [content |-> "hello"]>>}

\* the status a cached workflow has before any activate/deactivate: the
\* unvalidated default, a member assigned by update_workflow, or a validated
\* value
InitialStatuses == {Member("draft"), Member("active"), StrVal("active")}

NoContext == [none |-> TRUE]

NotCalled == [repr |-> "none", v |-> ""]

\* via, entry_status, trigger and start_nodes record how the call was made
\* and what _find_start_nodes returned
IdleFrame ==
    [queue |-> <<>>, executed |-> {}, skipped |-> {}, node |-> NoneVal,
     wrapper_context |-> 0, executor |-> 0, via |-> "", entry_status |-> NotCalled,
     trigger |-> NoneVal, start_nodes |-> <<>>]

Called(via, trigger) ==
    [IdleFrame EXCEPT !.via = via, !.entry_status = status, !.trigger = trigger]

\* a call that was turned away before any context was made
Refused(via) == [IdleFrame EXCEPT !.via = via, !.entry_status = status]

\* the workflow id the clients name; uuid4 values are 1, 2, ...
GivenId == 0

\* result.first() found no row
NoVersion == 0

\* a call that was not made yet; current is what the select returned,
\* entry_version the cached version when the call was made
IdleTask ==
    [op |-> "", step |-> "idle", result |-> NoneVal, current |-> NoVersion,
     entry_version |-> NoVersion, local |-> NoneVal]

\* no WorkflowDebugger was made for the workflow
NoDebugger == [attached |-> FALSE, breakpoints |-> {}, step_mode |-> FALSE]

\* no function was applied
NotApplied == [fn |-> "none"]

\* nothing was exported
NoExchange == [step |-> "none"]

\* no Workflow object; the objects are numbered by the call that made them
NoObject == 0

\* WorkflowManager.__init__ over a database with the rows
ManagerOver(rows) ==
    /\ heap = [value |-> <<>>, cached |-> <<>>, executor |-> <<>>,
               held |-> [t \in Tasks |-> NoObject]]
    /\ workflows = <<>>
    /\ bot_workflows = <<>>
    /\ workflow_executors = {}
    /\ debuggers = {}
    /\ scheduled_tasks = {}
    /\ store = rows
    /\ execution_records = {}
    /\ next_uuid = 1
    /\ tasks = [t \in Tasks |-> IdleTask]

\* WorkflowManager.__init__ and an empty database
ManagerInit == ManagerOver(<<>>)

ConstructedOver(catalog, rows) ==
    /\ ManagerOver(rows)
    /\ workflow \in catalog
    /\ status \in InitialStatuses
    /\ executors = 0
    /\ num_executors = 0
    /\ executor_context = [e \in 1..(MaxExecutors + MaxExecs) |-> 0]
    /\ contexts = [p \in Procs |-> NoContext]
    /\ active_executions = <<>>
    /\ pc = [p \in Procs |-> "idle"]
    /\ frame = [p \in Procs |-> IdleFrame]
    /\ results = [p \in Procs |-> NoResult]
    /\ trace = [p \in Procs |-> <<>>]
    /\ running = 0
    /\ default_object = <<>>
    /\ debugger = NoDebugger
    /\ exchange = NoExchange
    /\ scheduled_workflows = <<>>
    /\ asyncio_tasks = <<>>
    /\ evaluation = NotApplied

Constructed(catalog) == ConstructedOver(catalog, <<>>)

Init == Constructed(Catalog)

\* -------------------------------------------------------- manager lifecycle
\* WorkflowManager.activate_workflow: the status is assigned the member, a
\* new executor replaces the cached one, _start_scheduled_task only logs
ActivateWorkflow ==
    /\ UNCHANGED <<manager_vars, tool_vars, default_object>>
    /\ running = 0
    /\ num_executors < MaxExecutors
    /\ status' = Member("active")
    /\ num_executors' = num_executors + 1
    /\ executors' = num_executors + 1
    /\ UNCHANGED <<workflow, executor_context, contexts, active_executions, pc, frame,
                   results, trace>>
    /\ UNCHANGED running

\* WorkflowManager.deactivate_workflow
DeactivateWorkflow ==
    /\ UNCHANGED <<manager_vars, tool_vars, default_object>>
    /\ running = 0
    /\ status # Member("inactive")
    /\ status' = Member("inactive")
    /\ UNCHANGED <<workflow, executors, num_executors, executor_context, contexts,
                   active_executions, pc, frame, results, trace, running>>

\* ------------------------------------------------------------ execute calls
\* the call p ends with result res; manager.execute_workflow records a
\* Result under its execution_id, which is the executor's
Return(p, res) ==
    /\ results' = [results EXCEPT ![p] = res]
    /\ pc' = [pc EXCEPT ![p] = "done"]
    /\ running' = 0

Record(via, res) ==
    active_executions' =
        IF via \in {"manager", "event"} /\ res.kind = "result"
        THEN [k \in DOMAIN active_executions \cup {res.execution_id} |->
                 IF k = res.execution_id THEN res ELSE active_executions[k]]
        ELSE active_executions

\* WorkflowExecutor.execute on executor e, up to the first loop iteration
EnterExecute(p, e, trigger, trigger_data, via) ==
    IF ~IsActive(status)
    THEN /\ Return(p, IF via = "executor" THEN RaisedResult("Workflow is not active")
                      ELSE NoResult)
         /\ frame' = [frame EXCEPT ![p] = Refused(via)]
         /\ UNCHANGED <<executor_context, contexts, active_executions, trace>>
    ELSE LET c == [WorkflowContext(trigger, trigger_data)
                      EXCEPT !.variables = workflow.variables]
             start_nodes == FindStartNodes(workflow, c)
             failed == [c EXCEPT !.errors =
                           Append(@, [error |-> "No start nodes found in workflow"])]
         IN  /\ executor_context' = [executor_context EXCEPT ![e] = p]
             /\ UNCHANGED trace
             /\ IF start_nodes = <<>>
                THEN /\ contexts' = [contexts EXCEPT ![p] = failed]
                     /\ frame' = [frame EXCEPT ![p] =
                                    [Called(via, trigger.v) EXCEPT !.executor = e]]
                     /\ Return(p, Result("failed", e, failed))
                     /\ Record(via, Result("failed", e, failed))
                ELSE /\ contexts' = [contexts EXCEPT ![p] = c]
                     /\ frame' = [frame EXCEPT ![p] =
                                    [Called(via, trigger.v) EXCEPT
                                        !.queue = start_nodes, !.executor = e,
                                        !.start_nodes = start_nodes]]
                     /\ pc' = [pc EXCEPT ![p] = "loop"]
                     /\ running' = p
                     /\ UNCHANGED <<results, active_executions>>

\* the calls are interchangeable: they are made in the order of their names
MayCall(p) ==
    /\ pc[p] = "idle"
    /\ running = 0
    /\ \A q \in Procs : q < p => pc[q] # "idle"

\* the executor a caller of WorkflowExecutor(workflow) constructs for itself;
\* the manager's executors are 1..MaxExecutors
OwnExecutor(p) == MaxExecutors + p

\* WorkflowExecutor(workflow).execute(trigger, trigger_data) on a new executor
ExecutorExecute(p, trigger, trigger_data) ==
    /\ UNCHANGED <<manager_vars, tool_vars, default_object>>
    /\ MayCall(p)
    /\ EnterExecute(p, OwnExecutor(p), trigger, trigger_data, "executor")
    /\ UNCHANGED <<workflow, status, executors, num_executors>>

\* WorkflowManager.execute_workflow(workflow_id, trigger, trigger_data)
ManagerEnter(p, trigger, trigger_data, via) ==
    IF ~IsActive(status)
    THEN /\ Return(p, NoResult)
         /\ frame' = [frame EXCEPT ![p] = Refused(via)]
         /\ UNCHANGED <<executors, num_executors, executor_context, contexts,
                        active_executions, trace>>
    ELSE IF executors = 0
         THEN /\ num_executors < MaxExecutors
              /\ num_executors' = num_executors + 1
              /\ executors' = num_executors + 1
              /\ EnterExecute(p, num_executors + 1, trigger, trigger_data, via)
         ELSE /\ UNCHANGED <<executors, num_executors>>
              /\ EnterExecute(p, executors, trigger, trigger_data, via)

ExecuteWorkflow(p, trigger, trigger_data) ==
    /\ UNCHANGED <<manager_vars, tool_vars, default_object>>
    /\ MayCall(p)
    /\ ManagerEnter(p, trigger, trigger_data, "manager")
    /\ UNCHANGED <<workflow, status>>

\* WorkflowManager.handle_message_event(bot_id, event_type, event_data) for
\* the bot the workflow is bound to
HandleMessageEvent(p, event_type, event_data) ==
    /\ UNCHANGED <<manager_vars, tool_vars, default_object>>
    /\ MayCall(p)
    /\ UNCHANGED <<workflow, status>>
    /\ IF event_type \notin {"person_message", "group_message"}
          \/ ~IsActive(status)
          \/ ~(\E i \in DOMAIN workflow.trigger_types :
                  workflow.trigger_types[i] = Member(event_type))
       THEN /\ Return(p, NoResult)
            /\ frame' = [frame EXCEPT ![p] = Refused("event")]
            /\ UNCHANGED <<executors, num_executors, executor_context, contexts,
                           active_executions, trace>>
       ELSE ManagerEnter(p, Member(event_type), event_data, "event")

\* ------------------------------------------------- _execute_from_nodes loop
\* executor.context as the call p reads it now
SelfContext(p) == executor_context[frame[p].executor]

\* "while queue" is false: execute builds the Success result from
\* executor.context
Drain(p) ==
    /\ UNCHANGED <<manager_vars, tool_vars, default_object>>
    /\ pc[p] = "loop"
    /\ running = p
    /\ frame[p].queue = <<>>
    /\ Return(p, Result("success", frame[p].executor, contexts[SelfContext(p)]))
    /\ Record(frame[p].via, Result("success", frame[p].executor, contexts[SelfContext(p)]))
    /\ UNCHANGED <<workflow, status, executors, num_executors, executor_context, contexts,
                   frame, trace>>

\* the popped node is already in executed or skipped: continue
SkipQueued(p) ==
    /\ UNCHANGED <<manager_vars, tool_vars, default_object>>
    /\ pc[p] = "loop"
    /\ running = p
    /\ frame[p].queue # <<>>
    /\ Head(frame[p].queue) \in frame[p].executed \cup frame[p].skipped
    /\ frame' = [frame EXCEPT ![p].queue = Tail(@)]
    /\ UNCHANGED <<workflow, status, executors, num_executors, executor_context, contexts,
                   active_executions, pc, results, trace, running>>

\* the popped node is not ready: it goes back to the tail of the queue
Requeue(p) ==
    /\ UNCHANGED <<manager_vars, tool_vars, default_object>>
    /\ pc[p] = "loop"
    /\ running = p
    /\ frame[p].queue # <<>>
    /\ Head(frame[p].queue) \notin frame[p].executed \cup frame[p].skipped
    /\ ~AreDependenciesSatisfied(workflow, Head(frame[p].queue), frame[p].executed)
    /\ frame' = [frame EXCEPT ![p].queue = Append(Tail(@), Head(@))]
    /\ UNCHANGED <<workflow, status, executors, num_executors, executor_context, contexts,
                   active_executions, pc, results, trace, running>>

\* an entry of trace: the node, how its handler ended, and the branch key of
\* the output it returned
Event(node, outcome, branch) == [node |-> node, outcome |-> outcome, branch |-> branch]

EventOf(node, h) ==
    Event(node, IF h.raised THEN "raised" ELSE h.status, Get(h.output, "branch", NoneVal))

\* the loop's state after an iteration; an exception that left the loop is
\* caught by execute, which appends it to executor.context.errors and builds
\* the Failed result
Continue(p, out, event, resumed) ==
    LET self_context == SelfContext(p)
        failed == [out.contexts[self_context] EXCEPT !.errors =
                      Append(@, [error |-> out.error])]
    IN  /\ trace' = [trace EXCEPT ![p] =
                        Append(IF resumed THEN SubSeq(@, 1, Len(@) - 1) ELSE @, event)]
        /\ frame' = [frame EXCEPT ![p].queue = out.queue, ![p].executed = out.executed,
                                  ![p].skipped = out.skipped, ![p].node = NoneVal]
        /\ IF out.raised
           THEN /\ contexts' = [out.contexts EXCEPT ![self_context] = failed]
                /\ Return(p, Result("failed", frame[p].executor, failed))
                /\ Record(frame[p].via, Result("failed", frame[p].executor, failed))
           ELSE /\ contexts' = out.contexts
                /\ pc' = [pc EXCEPT ![p] = "loop"]
                /\ running' = p
                /\ UNCHANGED <<results, active_executions>>

\* the popped node is ready and its handler returns or raises without
\* suspending: one whole iteration of the loop
RunNode(p) ==
    /\ UNCHANGED <<manager_vars, tool_vars>>
    /\ pc[p] = "loop"
    /\ running = p
    /\ frame[p].queue # <<>>
    /\ LET id == Head(frame[p].queue)
           n == NodeMap(workflow, id)
           f == frame[p]
           self_context == SelfContext(p)
           cs == [contexts EXCEPT ![self_context].current_node = id]
       IN  /\ id \notin f.executed \cup f.skipped
           /\ AreDependenciesSatisfied(workflow, id, f.executed)
           /\ ~(~CreateNodeRaises(n) /\ Suspends(n))
           /\ IF CreateNodeRaises(n)
              THEN /\ Continue(p, ExceptBranch(workflow, cs, self_context, n, f.executed,
                                               f.skipped, Tail(f.queue), "Unknown node type"),
                               Event(id, "no_handler", NoneVal), FALSE)
                   /\ UNCHANGED default_object
              ELSE LET h == IF n.type.v = "http_request"
                            THEN Raised("AttributeError", cs[self_context])
                            ELSE Execute(n, cs[self_context])
                   IN  /\ Continue(p, AfterHandler(workflow, cs, self_context, self_context,
                                                   n, f.executed, f.skipped, Tail(f.queue), h),
                                   EventOf(id, h), FALSE)
                       /\ default_object' = h.default_object
    /\ UNCHANGED <<workflow, status, executors, num_executors, executor_context>>

\* the popped node is ready and its handler sends a request: the call is
\* suspended at the await, and the event loop is free for other calls
Suspend(p) ==
    /\ UNCHANGED <<manager_vars, tool_vars, default_object>>
    /\ pc[p] = "loop"
    /\ running = p
    /\ frame[p].queue # <<>>
    /\ LET id == Head(frame[p].queue)
           n == NodeMap(workflow, id)
           f == frame[p]
       IN  /\ id \notin f.executed \cup f.skipped
           /\ AreDependenciesSatisfied(workflow, id, f.executed)
           /\ ~CreateNodeRaises(n)
           /\ Suspends(n)
           /\ contexts' = [contexts EXCEPT ![SelfContext(p)].current_node = id]
           /\ frame' = [frame EXCEPT ![p].queue = Tail(@), ![p].node = id,
                                     ![p].wrapper_context = SelfContext(p)]
           /\ trace' = [trace EXCEPT ![p] = Append(@, Event(id, "entered", NoneVal))]
    /\ pc' = [pc EXCEPT ![p] = "io"]
    /\ running' = 0
    /\ UNCHANGED <<workflow, status, executors, num_executors, executor_context,
                   active_executions, results>>

\* the request completed (io = "ok") or failed (io = "error"): the handler
\* returns and the iteration goes on from there
Resume(p, io) ==
    /\ UNCHANGED <<manager_vars, tool_vars, default_object>>
    /\ pc[p] = "io"
    /\ running = 0
    /\ LET f == frame[p]
           n == NodeMap(workflow, f.node)
           h == HttpRequestNode(n, contexts[f.wrapper_context], io)
       IN  Continue(p, AfterHandler(workflow, contexts, SelfContext(p), f.wrapper_context, n,
                                    f.executed, f.skipped, f.queue, h),
                    EventOf(f.node, h), TRUE)
    /\ UNCHANGED <<workflow, status, executors, num_executors, executor_context>>

\* the task that runs WorkflowExecutor(workflow).execute is cancelled while
\* it awaits the request: CancelledError is raised at the await and is no
\* Exception, so it passes the except clauses of the handler, of the loop
\* and of execute
Cancel(p) ==
    /\ UNCHANGED <<manager_vars, tool_vars, default_object>>
    /\ pc[p] = "io"
    /\ frame[p].via = "executor"
    /\ running = 0
    /\ Return(p, RaisedResult("CancelledError"))
    /\ trace' = [trace EXCEPT ![p] =
                    Append(SubSeq(@, 1, Len(@) - 1), Event(frame[p].node, "cancelled", NoneVal))]
    /\ frame' = [frame EXCEPT ![p].node = NoneVal]
    /\ UNCHANGED <<workflow, status, executors, num_executors, executor_context, contexts,
                   active_executions>>

Next ==
    \/ ActivateWorkflow
    \/ DeactivateWorkflow
    \/ \E p \in Procs, call \in DirectCalls : ExecutorExecute(p, call[1], call[2])
    \/ \E p \in Procs, call \in Calls : ExecuteWorkflow(p, call[1], call[2])
    \/ \E p \in Procs, event \in Events : HandleMessageEvent(p, event[1], event[2])
    \/ \E p \in Procs : Drain(p)
    \/ \E p \in Procs : SkipQueued(p)
    \/ \E p \in Procs : Requeue(p)
    \/ \E p \in Procs : RunNode(p)
    \/ \E p \in Procs : Suspend(p)
    \/ \E p \in Procs, io \in {"ok", "error"} : Resume(p, io)

Spec == Init /\ [][Next]_vars

\* direct executions of the workflows of HandlerCatalog, whose task may be
\* cancelled from outside
HandlerInit ==
    /\ Constructed(HandlerCatalog)
    /\ status = Member("active")

HandlerNext ==
    \/ \E p \in Procs, call \in DirectCalls : ExecutorExecute(p, call[1], call[2])
    \/ \E p \in Procs : Drain(p)
    \/ \E p \in Procs : SkipQueued(p)
    \/ \E p \in Procs : Requeue(p)
    \/ \E p \in Procs : RunNode(p)
    \/ \E p \in Procs : Suspend(p)
    \/ \E p \in Procs, io \in {"ok", "error"} : Resume(p, io)
    \/ \E p \in Procs : Cancel(p)

HandlerSpec == HandlerInit /\ [][HandlerNext]_vars

\* the loop of a call runs on without yielding until it awaits a request,
\* and a request that was sent completes or fails
FairSpec ==
    /\ Spec
    /\ \A p \in Procs :
          /\ WF_vars(Drain(p) \/ SkipQueued(p) \/ Requeue(p) \/ RunNode(p) \/ Suspend(p))
          /\ WF_vars(\E io \in {"ok", "error"} : Resume(p, io))

\* ------------------------------------------------------------- properties
\* the nodes whose handler the call p ran to its return, in order: the nodes
\* the call added to its executed set
RECURSIVE ExecutedBy(_)
ExecutedBy(events) ==
    IF events = <<>> THEN <<>>
    ELSE LET rest == ExecutedBy(Tail(events))
         IN  IF Head(events).outcome \in {"success", "failed"}
             THEN <<Head(events).node>> \o rest
             ELSE rest

Range(seq) == {seq[i] : i \in DOMAIN seq}

\* the call p returned a WorkflowExecutionResult
HasResult(p) == pc[p] = "done" /\ results[p].kind = "result"

\* the ids of the nodes an edge from id leads to
Successors(w, id) == {e.target : e \in Range(EdgeMap(w, id))}

\* the node failed: its handler reported Failed or raised, or it could not
\* be created
Failing(event) == event.outcome \in {"failed", "raised", "no_handler"}

\* C1: in every Result, each node of executed_nodes comes after the source
\* of each edge that leads to it.
C1_DependencyOrder ==
    \A p \in Procs :
        HasResult(p) =>
            LET en == results[p].executed_nodes
            IN  \A i \in DOMAIN en :
                    \A e \in Range(ReverseEdgeMap(workflow, en[i])) :
                        \E j \in 1..(i - 1) : en[j] = e.source

\* every queued node of the call p is waiting for a node that is not executed
Starved(p) ==
    /\ pc[p] = "loop"
    /\ frame[p].queue # <<>>
    /\ \A id \in Range(frame[p].queue) :
          /\ id \notin frame[p].executed \cup frame[p].skipped
          /\ ~AreDependenciesSatisfied(workflow, id, frame[p].executed)

\* C2: a call whose queue holds only nodes that are not ready ends, with a
\* Failed Result that records unsatisfiable_dependencies.
C2_StarvationFails ==
    \A p \in Procs :
        Starved(p) ~>
            (/\ HasResult(p)
             /\ results[p].status = "failed"
             /\ \E i \in DOMAIN results[p].errors :
                   results[p].errors[i].error = "unsatisfiable_dependencies")

\* C3: when a handler reports Failed on a node whose error_handler is stop or
\* unset, the Result is Failed and no successor of the node is in
\* executed_nodes.
C3_ReportedFailureStops ==
    \A p \in Procs :
        HasResult(p) =>
            \A i \in DOMAIN trace[p] :
                (/\ trace[p][i].outcome = "failed"
                 /\ ErrorHandlerOf(NodeMap(workflow, trace[p][i].node)) \in {"stop", NoneVal})
                => /\ results[p].status = "failed"
                   /\ Successors(workflow, trace[p][i].node)
                          \cap Range(results[p].executed_nodes) = {}

\* C4: a failing node with error_handler=skip is listed in the Result's
\* skipped_nodes and its successors are executed.
C4_SkippedIsListed ==
    \A p \in Procs :
        HasResult(p) =>
            \A i \in DOMAIN trace[p] :
                (/\ Failing(trace[p][i])
                 /\ ErrorHandlerOf(NodeMap(workflow, trace[p][i].node)) = "skip")
                => /\ trace[p][i].node \in Range(results[p].skipped_nodes)
                   /\ Successors(workflow, trace[p][i].node) \cap NodeIds(workflow)
                          \subseteq Range(results[p].executed_nodes)

\* C5: a failing node with error_handler=continue counts as executed: it is
\* in the call's executed set, so that the nodes depending on it become ready.
C5_ContinueIsExecuted ==
    \A p \in Procs :
        \A i \in DOMAIN trace[p] :
            (/\ Failing(trace[p][i])
             /\ ErrorHandlerOf(NodeMap(workflow, trace[p][i].node)) = "continue")
            => trace[p][i].node \in frame[p].executed

\* the edge is one that a branching node whose output has this branch follows
Matches(e, branch) == e.label = branch \/ (~Truthy(e.label) /\ branch = "default")

\* C6: after a condition or chat_command_branch node has run, a node whose
\* incoming edges all come from it and do not match its branch is not run.
C6_BranchExclusive ==
    \A p \in Procs :
        \A i \in DOMAIN trace[p] :
            LET ev == trace[p][i]
                c == NodeMap(workflow, ev.node)
            IN  (c.type.v \in {"condition", "chat_command_branch"} /\ ev.outcome = "success")
                => \A t \in Successors(workflow, c.id) \cap NodeIds(workflow) :
                       (\A e \in Range(ReverseEdgeMap(workflow, t)) :
                            e.source = c.id /\ ~Matches(e, ev.branch))
                       => t \notin Range(ExecutedBy(trace[p]))

\* C7: the Result of a call holds the nodes that call executed, in the order
\* it executed them, and nothing else.
C7_OwnContext ==
    \A p \in Procs :
        HasResult(p) => results[p].executed_nodes = ExecutedBy(trace[p])

\* C8: a call enters the handler of a node at most once.
C8_HandlerOnce ==
    \A p \in Procs :
        \A i, j \in DOMAIN trace[p] :
            (/\ i < j
             /\ trace[p][i].outcome # "no_handler"
             /\ trace[p][j].outcome # "no_handler")
            => trace[p][i].node # trace[p][j].node

\* C9: a call made while the workflow's status is not Active runs no handler,
\* makes no context and returns no Result: executor.execute raises,
\* execute_workflow and handle_message_event return nothing.
C9_InactiveRunsNothing ==
    \A p \in Procs :
        (pc[p] # "idle" /\ frame[p].entry_status.v # "active")
        => /\ pc[p] = "done"
           /\ trace[p] = <<>>
           /\ contexts[p] = NoContext
           /\ results[p] = IF frame[p].via = "executor"
                           THEN RaisedResult("Workflow is not active")
                           ELSE NoResult

\* a call of each kind was turned away from a workflow that is not Active
C9_Witness ==
    /\ pc[1] = "done"
    /\ frame[1].via = "executor"
    /\ frame[1].entry_status = Member("draft")
    /\ results[1] = RaisedResult("Workflow is not active")
    /\ pc[2] = "done"
    /\ frame[2].via = "event"
    /\ frame[2].entry_status = Member("inactive")
    /\ results[2] = NoResult

\* the start set the trigger asks for: every schedule_start node for
\* Scheduled, else the event_start nodes configured with the trigger
StartSet(w, trigger) ==
    LET starts == SelectSeq(w.nodes,
                            LAMBDA n : IF trigger = "scheduled"
                                       THEN n.type.v = "schedule_start"
                                       ELSE /\ n.type.v = "event_start"
                                            /\ Get(n.cfg, "trigger_type", NoneVal) = trigger)
    IN  [i \in DOMAIN starts |-> starts[i].id]

\* C10: the nodes that seed the queue of a call are the start set of its
\* trigger.
C10_StartSet ==
    \A p \in Procs :
        contexts[p] # NoContext => frame[p].start_nodes = StartSet(workflow, frame[p].trigger)

\* the call p made a context and _find_start_nodes returned no node
NoStart(p) ==
    pc[p] = "done" /\ contexts[p] # NoContext /\ frame[p].start_nodes = <<>>

\* C11: when no start node matches the trigger, execute returns a Result
\* (it does not raise) with status Failed, an errors entry that records the
\* missing start, and empty executed_nodes and outputs.
C11_NoStartFails ==
    \A p \in Procs :
        NoStart(p) =>
            /\ results[p].kind = "result"
            /\ results[p].status = "failed"
            /\ \E i \in DOMAIN results[p].errors :
                  results[p].errors[i].error = "No start nodes found in workflow"
            /\ results[p].executed_nodes = <<>>
            /\ DOMAIN results[p].outputs = {}

\* a manager call and a direct call both found no start node
C11_Witness ==
    /\ NoStart(1) /\ frame[1].via = "manager" /\ results[1].status = "failed"
    /\ NoStart(2) /\ frame[2].via = "executor" /\ results[2].status = "failed"

\* the events of the trace in which the node failed
Failures(events) == {i \in DOMAIN events : Failing(events[i])}

\* C12: a call in which one node fails under the stop policy returns a
\* Result whose errors hold exactly one entry, with the node_id of that node.
C12_OneErrorEntry ==
    \A p \in Procs :
        HasResult(p) =>
            \A i \in DOMAIN trace[p] :
                (/\ Failures(trace[p]) = {i}
                 /\ ErrorHandlerOf(NodeMap(workflow, trace[p][i].node)) = "stop")
                => /\ Len(results[p].errors) = 1
                   /\ "node_id" \in DOMAIN results[p].errors[1]
                   /\ results[p].errors[1].node_id = trace[p][i].node

\* C13: two calls that returned a Result never share an execution_id, and
\* active_executions holds one entry for each Result the manager recorded.
C13_FreshExecutionId ==
    /\ \A p, q \in Procs :
          (p # q /\ HasResult(p) /\ HasResult(q))
          => results[p].execution_id # results[q].execution_id
    /\ Cardinality(DOMAIN active_executions)
          = Cardinality({p \in Procs : HasResult(p) /\ frame[p].via # "executor"})

\* C14: handle_message_event with a message event executes the workflow of
\* the bot when it is Active and its trigger_types include the mapped
\* trigger.
C14_EventExecutesMatching ==
    [][\A p \in Procs, ev \in Events :
          (/\ HandleMessageEvent(p, ev[1], ev[2])
           /\ ev[1] \in {"person_message", "group_message"}
           /\ status.v = "active"
           /\ \E i \in DOMAIN workflow.trigger_types :
                 workflow.trigger_types[i].v = ev[1])
          => contexts'[p] # NoContext]_vars

\* ------------------------------------------- manager operations and store
Bots == {"b1", "b2"}

\* dict[key] = value
Put(d, key, value) == [k \in DOMAIN d \cup {key} |-> IF k = key THEN value ELSE d[k]]

\* del dict[key]
Del(d, key) == [k \in DOMAIN d \ {key} |-> d[k]]

\* list.remove(x): the first occurrence goes
RemoveFirst(list, x) ==
    LET i == CHOOSE i \in DOMAIN list :
                 list[i] = x /\ \A j \in 1..(i - 1) : list[j] # x
    IN  SubSeq(list, 1, i - 1) \o SubSeq(list, i + 1, Len(list))

\* "if bot_id not in bot_workflows: bot_workflows[bot_id] = []" and the append
AppendToBot(bw, bot_id, id) ==
    Put(bw, bot_id, Append(IF bot_id \in DOMAIN bw THEN bw[bot_id] ELSE <<>>, id))

\* the nodes, edges and trigger_types of a workflow_data dict or of a YAML
\* document: validation leaves value strings. The second has an edge to a
\* node that does not exist, the third two nodes with one id.
Definitions ==
    {Workflow(<<ReplyMessage("a", "str"), EndNode("b", "str")>>, <<E("a", "b")>>,
              <<StrVal("scheduled")>>, <<>>),
     Workflow(<<ReplyMessage("a", "str")>>, <<E("a", "x")>>,
              <<StrVal("person_message")>>, <<>>),
     Workflow(<<ReplyMessage("a", "str"), EndNode("a", "str")>>, <<>>,
              <<StrVal("person_message")>>, <<>>)}

\* a node or an edge as model_dump gives it: a dict
Dumped(x) == [dict |-> x]

IsDumped(x) == "dict" \in DOMAIN x

\* what validation makes of a node or an edge: the model of a dict
Validated(x) == IF IsDumped(x) THEN x.dict ELSE x

\* the Workflow object made by call t, with the nodes and edges of w
NewWorkflow(h, t, w) ==
    [h EXCEPT !.value = Put(@, t, [nodes |-> w.nodes, edges |-> w.edges])]

\* self.workflows[id] = workflow
CacheWorkflow(h, id, object) == [h EXCEPT !.cached = Put(@, id, object)]

\* WorkflowExecutor.__init__: node.id, edge.source and edge.target are read
\* off every node and edge, and a dict has no attributes
ExecutorRaises(o) ==
    \/ \E i \in DOMAIN o.nodes : IsDumped(o.nodes[i])
    \/ \E i \in DOMAIN o.edges : IsDumped(o.edges[i])

\* self.executors[id] = WorkflowExecutor(workflow): the executor keeps the
\* object and maps built from the nodes and edges it has now
NewExecutor(h, id, object) ==
    [h EXCEPT !.executor = Put(@, id, [workflow |-> object,
                                       nodes |-> h.value[object].nodes,
                                       edges |-> h.value[object].edges])]

\* the Workflow object the manager caches
CachedWorkflow(def, workflow_status, bot_id) ==
    [nodes |-> def.nodes, edges |-> def.edges, trigger_types |-> def.trigger_types,
     status |-> workflow_status, bot_id |-> bot_id, version |-> 1]

\* the workflow_data of update_workflow: the keys to set. None carries a
\* version or the fields a new Workflow requires. The last has the nodes as
\* the model_dump of a Workflow gives them.
UpdateData ==
    {[bot_id |-> "b2"],
     [trigger_types |-> <<Member("scheduled")>>],
     [edges |-> <<E("a", "x")>>],
     [nodes |-> <<Dumped(ReplyMessage("a", "str"))>>, edges |-> <<>>]}

\* "for key, value in workflow_data.items(): setattr(workflow, key, value)"
SetAttrs(w, workflow_data) ==
    [k \in DOMAIN w |-> IF k \in DOMAIN workflow_data THEN workflow_data[k] ELSE w[k]]

\* the calls are made in the order of their names
MayStart(t) ==
    /\ tasks[t].step = "idle"
    /\ \A u \in Tasks : u < t => tasks[u].step # "idle"

\* the call t returned or raised
Done(t, op, result) ==
    tasks' = [tasks EXCEPT ![t] = [@ EXCEPT !.op = op, !.step = "done",
                                            !.result = result]]

\* the call t awaits the answer to its next statement
Await(t, op, step, current, entry_version, local) ==
    tasks' = [tasks EXCEPT ![t] = [op |-> op, step |-> step, result |-> NoneVal,
                                   current |-> current,
                                   entry_version |-> entry_version, local |-> local]]

\* the row WorkflowService.create_workflow inserts for workflow.model_dump():
\* the first of trigger_types goes to the column trigger_type
InsertedRow(w) ==
    [version |-> w.version, status |-> w.status.v, bot_id |-> w.bot_id,
     trigger_type |-> IF w.trigger_types # <<>> THEN w.trigger_types[1].v ELSE "MANUAL",
     nodes |-> w.nodes, edges |-> w.edges]

\* the row after the update statement of WorkflowService.update_workflow for
\* workflow.model_dump(): an empty trigger_types leaves trigger_type alone
UpdatedRow(row, w, version) ==
    [version |-> version, status |-> w.status.v, bot_id |-> w.bot_id,
     trigger_type |-> IF w.trigger_types # <<>> THEN w.trigger_types[1].v
                      ELSE row.trigger_type,
     nodes |-> w.nodes, edges |-> w.edges]

\* WorkflowManager.create_workflow up to the answer to the insert of
\* WorkflowService.create_workflow; the primary key refuses a second row
CreateWorkflow(t, def, bot_id) ==
    /\ UNCHANGED <<executor_vars, tool_vars, heap>>
    /\ MayStart(t)
    /\ UNCHANGED <<workflows, bot_workflows, workflow_executors, debuggers,
                   scheduled_tasks, execution_records, next_uuid>>
    /\ IF GivenId \in DOMAIN store
       THEN /\ Done(t, "create_workflow", "raised")
            /\ UNCHANGED store
       ELSE /\ store' = Put(store, GivenId,
                             InsertedRow(CachedWorkflow(def, Member("draft"), bot_id)))
            /\ Await(t, "create_workflow", "inserted", NoVersion, NoVersion,
                     CachedWorkflow(def, Member("draft"), bot_id))

\* WorkflowManager.create_workflow from the answer on
CreateWorkflowResume(t) ==
    /\ UNCHANGED <<executor_vars, tool_vars>>
    /\ tasks[t].op = "create_workflow"
    /\ tasks[t].step = "inserted"
    /\ workflows' = Put(workflows, GivenId, tasks[t].local)
    /\ heap' = CacheWorkflow(NewWorkflow(heap, t, tasks[t].local), GivenId, t)
    /\ bot_workflows' = IF Truthy(tasks[t].local.bot_id)
                        THEN AppendToBot(bot_workflows, tasks[t].local.bot_id, GivenId)
                        ELSE bot_workflows
    /\ Done(t, "create_workflow", "ok")
    /\ UNCHANGED <<workflow_executors, debuggers, scheduled_tasks, store,
                   execution_records, next_uuid>>

\* the select of WorkflowService.update_workflow
SelectVersion == IF GivenId \in DOMAIN store THEN store[GivenId].version ELSE NoVersion

\* WorkflowManager.update_workflow up to the answer to the select of
\* WorkflowService.update_workflow. For an id that is not cached it calls
\* create_workflow, where Workflow(**workflow_data) raises for the missing
\* fields.
UpdateWorkflow(t, workflow_data) ==
    /\ UNCHANGED <<executor_vars, tool_vars>>
    /\ MayStart(t)
    /\ UNCHANGED <<bot_workflows, workflow_executors, debuggers, scheduled_tasks,
                   store, execution_records, next_uuid>>
    /\ IF GivenId \notin DOMAIN workflows
       THEN /\ Done(t, "update_workflow", "raised")
            /\ UNCHANGED <<workflows, heap>>
       ELSE LET w == SetAttrs(workflows[GivenId], workflow_data)
            IN  /\ workflows' = [workflows EXCEPT ![GivenId] = w]
                /\ heap' = [heap EXCEPT !.value[heap.cached[GivenId]] =
                                            SetAttrs(@, workflow_data),
                                        !.held[t] = heap.cached[GivenId]]
                /\ Await(t, "update_workflow", "selected", SelectVersion,
                         workflows[GivenId].version, w)

\* WorkflowService.update_workflow called by the controller, up to the
\* answer to its select
ServiceUpdateWorkflow(t) ==
    /\ UNCHANGED <<executor_vars, tool_vars, heap>>
    /\ MayStart(t)
    /\ Await(t, "service.update_workflow", "selected", SelectVersion, NoVersion, NoneVal)
    /\ UNCHANGED <<workflows, bot_workflows, workflow_executors, debuggers,
                   scheduled_tasks, store, execution_records, next_uuid>>

\* the update statement of WorkflowService.update_workflow and the return:
\* the version written is the one read plus one; with no row read, the
\* manager's model_dump carries the cached version and the controller's data
\* none. update_workflow then replaces the executor of a key that has one
\* by an executor of the workflow object it holds, whose constructor raises
\* on a dict.
UpdateWorkflowResume(t) ==
    /\ UNCHANGED <<executor_vars, tool_vars>>
    /\ tasks[t].op \in {"update_workflow", "service.update_workflow"}
    /\ tasks[t].step = "selected"
    /\ store' = IF GivenId \notin DOMAIN store THEN store
                ELSE IF tasks[t].op = "update_workflow"
                THEN [store EXCEPT ![GivenId] =
                         UpdatedRow(@, tasks[t].local,
                                    IF tasks[t].current # NoVersion
                                    THEN tasks[t].current + 1
                                    ELSE tasks[t].local.version)]
                ELSE IF tasks[t].current # NoVersion
                THEN [store EXCEPT ![GivenId].version = tasks[t].current + 1]
                ELSE store
    /\ IF tasks[t].op = "update_workflow" /\ GivenId \in workflow_executors
       THEN IF ExecutorRaises(heap.value[heap.held[t]])
            THEN /\ Done(t, tasks[t].op, "raised")
                 /\ UNCHANGED heap
            ELSE /\ Done(t, tasks[t].op, IF GivenId \in DOMAIN store THEN "ok" ELSE "no row")
                 /\ heap' = NewExecutor(heap, GivenId, heap.held[t])
       ELSE /\ Done(t, tasks[t].op, IF GivenId \in DOMAIN store THEN "ok" ELSE "no row")
            /\ UNCHANGED heap
    /\ UNCHANGED <<workflows, bot_workflows, workflow_executors, debuggers,
                   scheduled_tasks, execution_records, next_uuid>>

\* the first statement of WorkflowService.delete_workflow
DeleteRecords == {r \in execution_records : r.workflow_uuid # GivenId}

\* WorkflowManager.delete_workflow up to the answer to the first statement of
\* WorkflowService.delete_workflow; list.remove raises when the id is not in
\* the list of the workflow's bot
DeleteWorkflow(t) ==
    /\ UNCHANGED <<executor_vars, tool_vars>>
    /\ MayStart(t)
    /\ UNCHANGED <<store, next_uuid>>
    /\ IF GivenId \notin DOMAIN workflows
       THEN /\ Done(t, "delete_workflow", "False")
            /\ UNCHANGED <<workflows, bot_workflows, workflow_executors, debuggers,
                           scheduled_tasks, execution_records, heap>>
       ELSE LET bot_id == workflows[GivenId].bot_id
                listed == Truthy(bot_id) /\ bot_id \in DOMAIN bot_workflows
            IN  /\ scheduled_tasks' = scheduled_tasks \ {GivenId}
                /\ IF listed /\ GivenId \notin Range(bot_workflows[bot_id])
                   THEN /\ Done(t, "delete_workflow", "raised")
                        /\ UNCHANGED <<workflows, bot_workflows, workflow_executors,
                                       debuggers, execution_records, heap>>
                   ELSE /\ bot_workflows' =
                              IF listed
                              THEN [bot_workflows EXCEPT
                                       ![bot_id] = RemoveFirst(@, GivenId)]
                              ELSE bot_workflows
                        /\ workflow_executors' = workflow_executors \ {GivenId}
                        /\ debuggers' = debuggers \ {GivenId}
                        /\ workflows' = Del(workflows, GivenId)
                        /\ heap' = [heap EXCEPT !.cached = Del(@, GivenId),
                                                !.executor = Del(@, GivenId)]
                        /\ execution_records' = DeleteRecords
                        /\ Await(t, "delete_workflow", "records_deleted", NoVersion,
                                 NoVersion, NoneVal)

\* WorkflowService.delete_workflow called by the controller, up to the answer
\* to its first statement
ServiceDeleteWorkflow(t) ==
    /\ UNCHANGED <<executor_vars, tool_vars, heap>>
    /\ MayStart(t)
    /\ execution_records' = DeleteRecords
    /\ Await(t, "service.delete_workflow", "records_deleted", NoVersion, NoVersion,
             NoneVal)
    /\ UNCHANGED <<workflows, bot_workflows, workflow_executors, debuggers,
                   scheduled_tasks, store, next_uuid>>

\* the second statement of WorkflowService.delete_workflow and the return
DeleteWorkflowResume(t) ==
    /\ UNCHANGED <<executor_vars, tool_vars, heap>>
    /\ tasks[t].op \in {"delete_workflow", "service.delete_workflow"}
    /\ tasks[t].step = "records_deleted"
    /\ store' = Del(store, GivenId)
    /\ Done(t, tasks[t].op, "True")
    /\ UNCHANGED <<workflows, bot_workflows, workflow_executors, debuggers,
                   scheduled_tasks, execution_records, next_uuid>>

\* WorkflowService.create_execution_record for the workflow
CreateExecutionRecord(t) ==
    /\ UNCHANGED <<executor_vars, tool_vars, heap>>
    /\ MayStart(t)
    /\ execution_records' =
           execution_records \cup {[uuid |-> next_uuid, workflow_uuid |-> GivenId]}
    /\ next_uuid' = next_uuid + 1
    /\ Done(t, "create_execution_record", "ok")
    /\ UNCHANGED <<workflows, bot_workflows, workflow_executors, debuggers,
                   scheduled_tasks, store>>

\* WorkflowManager.import_workflow: the workflow gets a new id and is cached,
\* nothing is written to the store
ImportWorkflow(t, def, bot_id) ==
    /\ UNCHANGED <<executor_vars, tool_vars>>
    /\ MayStart(t)
    /\ workflows' = Put(workflows, next_uuid, CachedWorkflow(def, StrVal("draft"), bot_id))
    /\ heap' = CacheWorkflow(NewWorkflow(heap, t, def), next_uuid, t)
    /\ bot_workflows' = IF Truthy(bot_id)
                        THEN AppendToBot(bot_workflows, bot_id, next_uuid)
                        ELSE bot_workflows
    /\ next_uuid' = next_uuid + 1
    /\ Done(t, "import_workflow", "ok")
    /\ UNCHANGED <<workflow_executors, debuggers, scheduled_tasks, store,
                   execution_records>>

\* _start_scheduled_task logs and registers nothing
StartScheduledTask(registered, id) == registered

\* WorkflowManager.activate_workflow(GivenId): the status is assigned, then
\* the executor is made
ActivateWorkflowById(t) ==
    /\ UNCHANGED <<executor_vars, tool_vars>>
    /\ MayStart(t)
    /\ UNCHANGED <<bot_workflows, debuggers, store, execution_records, next_uuid>>
    /\ IF GivenId \notin DOMAIN workflows
       THEN /\ Done(t, "activate_workflow", "False")
            /\ UNCHANGED <<workflows, workflow_executors, scheduled_tasks, heap>>
       ELSE /\ workflows' = [workflows EXCEPT ![GivenId].status = Member("active")]
            /\ IF ExecutorRaises(heap.value[heap.cached[GivenId]])
               THEN /\ Done(t, "activate_workflow", "raised")
                    /\ UNCHANGED <<workflow_executors, scheduled_tasks, heap>>
               ELSE /\ workflow_executors' = workflow_executors \cup {GivenId}
                    /\ heap' = NewExecutor(heap, GivenId, heap.cached[GivenId])
                    /\ scheduled_tasks' =
                           IF \E i \in DOMAIN workflows[GivenId].trigger_types :
                                  workflows[GivenId].trigger_types[i] = Member("scheduled")
                           THEN StartScheduledTask(scheduled_tasks, GivenId)
                           ELSE scheduled_tasks
                    /\ Done(t, "activate_workflow", "True")

\* WorkflowManager.deactivate_workflow(GivenId)
DeactivateWorkflowById(t) ==
    /\ UNCHANGED <<executor_vars, tool_vars, heap>>
    /\ MayStart(t)
    /\ UNCHANGED <<bot_workflows, workflow_executors, debuggers, store,
                   execution_records, next_uuid>>
    /\ IF GivenId \notin DOMAIN workflows
       THEN /\ Done(t, "deactivate_workflow", "False")
            /\ UNCHANGED <<workflows, scheduled_tasks>>
       ELSE /\ workflows' = [workflows EXCEPT ![GivenId].status = Member("inactive")]
            /\ scheduled_tasks' = scheduled_tasks \ {GivenId}
            /\ Done(t, "deactivate_workflow", "True")

\* WorkflowManager.bind_workflow_to_bot(GivenId, bot_id)
BindWorkflowToBot(t, bot_id) ==
    /\ UNCHANGED <<executor_vars, tool_vars, heap>>
    /\ MayStart(t)
    /\ UNCHANGED <<workflow_executors, debuggers, scheduled_tasks, store,
                   execution_records, next_uuid>>
    /\ IF GivenId \notin DOMAIN workflows
       THEN /\ Done(t, "bind_workflow_to_bot", "False")
            /\ UNCHANGED <<workflows, bot_workflows>>
       ELSE LET old == workflows[GivenId].bot_id
                listed == Truthy(old) /\ old \in DOMAIN bot_workflows
            IN  IF listed /\ GivenId \notin Range(bot_workflows[old])
                THEN /\ Done(t, "bind_workflow_to_bot", "raised")
                     /\ UNCHANGED <<workflows, bot_workflows>>
                ELSE /\ workflows' = [workflows EXCEPT ![GivenId].bot_id = bot_id]
                     /\ bot_workflows' =
                            AppendToBot(IF listed
                                        THEN [bot_workflows EXCEPT
                                                 ![old] = RemoveFirst(@, GivenId)]
                                        ELSE bot_workflows,
                                        bot_id, GivenId)
                     /\ Done(t, "bind_workflow_to_bot", "True")

\* WorkflowManager.unbind_workflow_from_bot(GivenId)
UnbindWorkflowFromBot(t) ==
    /\ UNCHANGED <<executor_vars, tool_vars, heap>>
    /\ MayStart(t)
    /\ UNCHANGED <<workflow_executors, debuggers, scheduled_tasks, store,
                   execution_records, next_uuid>>
    /\ IF GivenId \notin DOMAIN workflows \/ ~Truthy(workflows[GivenId].bot_id)
       THEN /\ Done(t, "unbind_workflow_from_bot", "False")
            /\ UNCHANGED <<workflows, bot_workflows>>
       ELSE LET old == workflows[GivenId].bot_id
            IN  IF old \in DOMAIN bot_workflows /\ GivenId \notin Range(bot_workflows[old])
                THEN /\ Done(t, "unbind_workflow_from_bot", "raised")
                     /\ UNCHANGED <<workflows, bot_workflows>>
                ELSE /\ workflows' = [workflows EXCEPT ![GivenId].bot_id = NoneVal]
                     /\ bot_workflows' =
                            IF old \in DOMAIN bot_workflows
                            THEN [bot_workflows EXCEPT ![old] = RemoveFirst(@, GivenId)]
                            ELSE bot_workflows
                     /\ Done(t, "unbind_workflow_from_bot", "True")

\* WorkflowManager.debug_workflow(GivenId, ...) as far as the manager's
\* indices go: the debugger of the workflow is looked up or made
DebugWorkflow(t) ==
    /\ UNCHANGED <<executor_vars, tool_vars, heap>>
    /\ MayStart(t)
    /\ IF GivenId \notin DOMAIN workflows
       THEN /\ Done(t, "debug_workflow", NoneVal)
            /\ UNCHANGED debuggers
       ELSE /\ debuggers' = debuggers \cup {GivenId}
            /\ Done(t, "debug_workflow", "ok")
    /\ UNCHANGED <<workflows, bot_workflows, workflow_executors, scheduled_tasks,
                   store, execution_records, next_uuid>>

\* Workflow(**workflow_data) for a row of get_workflows: the row has no key
\* trigger_types, so the default [] stands; status goes through validation
LoadWorkflow(row) ==
    [nodes |-> [i \in DOMAIN row.nodes |-> Validated(row.nodes[i])],
     edges |-> [i \in DOMAIN row.edges |-> Validated(row.edges[i])],
     trigger_types |-> <<>>,
     status |-> UseEnumValues(Member(row.status)), bot_id |-> row.bot_id,
     version |-> row.version]

\* "Rebuild bot mappings" of initialize over the rows, in the order of ids
RECURSIVE RebuildBotMappings(_, _, _)
RebuildBotMappings(bw, rows, ids) ==
    IF ids = {} THEN bw
    ELSE LET id == CHOOSE i \in ids : \A j \in ids : i <= j
         IN  RebuildBotMappings(IF Truthy(rows[id].bot_id)
                                THEN AppendToBot(bw, rows[id].bot_id, id)
                                ELSE bw,
                                rows, ids \ {id})

\* WorkflowManager.initialize up to the answer of get_workflows
Initialize(t) ==
    /\ UNCHANGED <<executor_vars, tool_vars, heap>>
    /\ MayStart(t)
    /\ Await(t, "initialize", "selected", NoVersion, NoVersion, store)
    /\ UNCHANGED <<workflows, bot_workflows, workflow_executors, debuggers,
                   scheduled_tasks, store, execution_records, next_uuid>>

\* WorkflowManager.initialize from the answer on: every row is cached and
\* appended to the list of its bot; an executor is made where the status
\* equals the member WorkflowStatus.ACTIVE. The store has rows of GivenId
\* only, so the call makes one Workflow object at most.
InitializeResume(t) ==
    /\ UNCHANGED <<executor_vars, tool_vars>>
    /\ tasks[t].op = "initialize"
    /\ tasks[t].step = "selected"
    /\ LET rows == tasks[t].local
       IN  /\ workflows' = [id \in DOMAIN workflows \cup DOMAIN rows |->
                               IF id \in DOMAIN rows THEN LoadWorkflow(rows[id])
                               ELSE workflows[id]]
           /\ bot_workflows' = RebuildBotMappings(bot_workflows, rows, DOMAIN rows)
           /\ workflow_executors' =
                  workflow_executors
                      \cup {id \in DOMAIN rows : LoadWorkflow(rows[id]).status = Member("active")}
           /\ heap' =
                  IF GivenId \notin DOMAIN rows THEN heap
                  ELSE LET loaded == CacheWorkflow(NewWorkflow(heap, t, LoadWorkflow(rows[GivenId])),
                                                   GivenId, t)
                       IN  IF LoadWorkflow(rows[GivenId]).status = Member("active")
                           THEN NewExecutor(loaded, GivenId, t)
                           ELSE loaded
    /\ Done(t, "initialize", "ok")
    /\ UNCHANGED <<debuggers, scheduled_tasks, store, execution_records, next_uuid>>

\* the manager and the store with no execution under way
ManagerSpecInit ==
    /\ Init
    /\ workflow \in ValidatedWorkflows
    /\ status = Member("draft")

ManagerNext ==
    \/ \E t \in Tasks, def \in Definitions, bot_id \in {NoneVal, "b1"} :
          CreateWorkflow(t, def, bot_id)
    \/ \E t \in Tasks : CreateWorkflowResume(t)
    \/ \E t \in Tasks, workflow_data \in UpdateData : UpdateWorkflow(t, workflow_data)
    \/ \E t \in Tasks : ServiceUpdateWorkflow(t)
    \/ \E t \in Tasks : UpdateWorkflowResume(t)
    \/ \E t \in Tasks : DeleteWorkflow(t)
    \/ \E t \in Tasks : ServiceDeleteWorkflow(t)
    \/ \E t \in Tasks : DeleteWorkflowResume(t)
    \/ \E t \in Tasks : CreateExecutionRecord(t)
    \/ \E t \in Tasks, def \in Definitions : ImportWorkflow(t, def, "b1")
    \/ \E t \in Tasks : ActivateWorkflowById(t)
    \/ \E t \in Tasks : DeactivateWorkflowById(t)
    \/ \E t \in Tasks, bot_id \in Bots : BindWorkflowToBot(t, bot_id)
    \/ \E t \in Tasks : UnbindWorkflowFromBot(t)
    \/ \E t \in Tasks : DebugWorkflow(t)
    \/ \E t \in Tasks : Initialize(t)
    \/ \E t \in Tasks : InitializeResume(t)

ManagerSpec == ManagerSpecInit /\ [][ManagerNext]_vars

\* the databases a manager can start over: empty, or with the row of a
\* workflow that an earlier run created and saved
StoredRows ==
    {<<>>} \cup
    {Put(<<>>, GivenId, InsertedRow(CachedWorkflow(def, workflow_status, bot_id))) :
        def \in Definitions, workflow_status \in {Member("draft"), Member("active")},
        bot_id \in {NoneVal, "b1"}}

\* a manager is started over a database and initialized
RestartInit ==
    /\ \E rows \in StoredRows : ConstructedOver(ValidatedWorkflows, rows)
    /\ status = Member("draft")

RestartNext ==
    \/ \E t \in Tasks : Initialize(t)
    \/ \E t \in Tasks : InitializeResume(t)
    \/ \E t \in Tasks : ActivateWorkflowById(t)
    \/ \E t \in Tasks : DeactivateWorkflowById(t)

RestartSpec == RestartInit /\ [][RestartNext]_vars

\* the workflow lists the Scheduled trigger
ListsScheduled(w) == \E i \in DOMAIN w.trigger_types : w.trigger_types[i].v = "scheduled"

\* C15: activate_workflow on a cached workflow leaves it Active, with an
\* executor and, when Scheduled is among its trigger_types, with a task in
\* scheduled_tasks; deactivate_workflow leaves it Inactive with no task.
C15_ActivateRegisters ==
    [][\A t \in Tasks :
          /\ (ActivateWorkflowById(t) /\ GivenId \in DOMAIN workflows)
             => /\ workflows'[GivenId].status = Member("active")
                /\ GivenId \in workflow_executors'
                /\ ListsScheduled(workflows[GivenId]) => GivenId \in scheduled_tasks'
          /\ (DeactivateWorkflowById(t) /\ GivenId \in DOMAIN workflows)
             => /\ workflows'[GivenId].status = Member("inactive")
                /\ GivenId \notin scheduled_tasks']_vars

\* the id is in one of the manager's indices or in the store
Indexed(ws, bw, ex, dbg, st, rows) ==
    \/ GivenId \in DOMAIN ws \cup ex \cup dbg \cup st \cup DOMAIN rows
    \/ \E b \in DOMAIN bw : GivenId \in Range(bw[b])

\* C16: when delete_workflow returns true the id is in no index of the
\* manager and not in the store; for an id that is not cached it returns
\* false and changes no index.
C16_DeleteDropsIndices ==
    [][\A t \in Tasks :
          /\ (DeleteWorkflowResume(t) /\ tasks[t].op = "delete_workflow")
             => ~Indexed(workflows', bot_workflows', workflow_executors', debuggers',
                         scheduled_tasks', store')
          /\ (DeleteWorkflow(t) /\ GivenId \notin DOMAIN workflows)
             => /\ tasks'[t].result = "False"
                /\ UNCHANGED <<workflows, bot_workflows, workflow_executors,
                               debuggers, scheduled_tasks>>]_vars

\* C17: when update_workflow of the manager has updated the row, the stored
\* version and the cached version are each one more than they were when the
\* call was made.
C17_VersionBumped ==
    [][\A t \in Tasks :
          (/\ UpdateWorkflowResume(t)
           /\ tasks[t].op = "update_workflow"
           /\ tasks[t].current # NoVersion
           /\ GivenId \in DOMAIN store)
          => /\ store'[GivenId].version = tasks[t].current + 1
             /\ GivenId \in DOMAIN workflows'
             /\ workflows'[GivenId].version = tasks[t].entry_version + 1]_vars

\* the update calls that read the row and have written it
CompletedUpdates ==
    {t \in Tasks : /\ tasks[t].op \in {"update_workflow", "service.update_workflow"}
                   /\ tasks[t].step = "done"
                   /\ tasks[t].result = "ok"
                   /\ tasks[t].current # NoVersion}

\* C18: with no update under way, the stored version of a row that was
\* inserted with version 1 and never deleted is 1 plus the number of the
\* updates that completed.
C18_AtomicIncrement ==
    (/\ GivenId \in DOMAIN store
     /\ \A t \in Tasks :
           /\ tasks[t].op \notin {"delete_workflow", "service.delete_workflow"}
           /\ tasks[t].step # "selected")
    => store[GivenId].version = 1 + Cardinality(CompletedUpdates)

\* C19: when a delete of the workflow completes, the store holds no execution
\* record of it.
C19_NoRecordsAfterDelete ==
    [][\A t \in Tasks :
          DeleteWorkflowResume(t)
          => \A r \in execution_records' : r.workflow_uuid # GivenId]_vars

\* every edge joins two nodes of the workflow, and no two nodes share an id
WellFormed(w) ==
    /\ \A i \in DOMAIN w.edges :
          {w.edges[i].source, w.edges[i].target} \subseteq NodeIds(w)
    /\ \A i, j \in DOMAIN w.nodes : i # j => w.nodes[i].id # w.nodes[j].id

\* C20: every workflow the manager caches is well formed.
C20_CachedWellFormed ==
    \A id \in DOMAIN workflows : WellFormed(workflows[id])

\* ------------------------------------------------ condition nodes and replies
\* the condition node c returned the output out to the call p
ConditionReturned(p, out) ==
    /\ HasResult(p)
    /\ workflow \in ConditionBranchWorkflows
    /\ \E i \in DOMAIN trace[p] : trace[p][i].node = "c" /\ trace[p][i].outcome = "success"
    /\ "c" \in DOMAIN results[p].outputs
    /\ results[p].outputs["c"].result = out

\* C21: a condition node's output carries branch "true" or "false" after
\* its result, and only the nodes behind the edge labelled with that branch
\* are executed; a condition node without clauses takes the branch "false".
C21_ConditionBranch ==
    \A p \in Procs :
        /\ ConditionReturned(p, FalseVal) =>
               /\ Get(results[p].outputs["c"], "branch", NoneVal) = "false"
               /\ "r2" \in Range(results[p].executed_nodes)
               /\ "r1" \notin Range(results[p].executed_nodes)
        /\ ConditionReturned(p, TrueVal) =>
               /\ Get(results[p].outputs["c"], "branch", NoneVal) = "true"
               /\ "r1" \in Range(results[p].executed_nodes)
               /\ "r2" \notin Range(results[p].executed_nodes)

\* the entries a Result's messages_sent should hold: one per reply_message
\* node that succeeded, in the order of the events
RECURSIVE RepliesSent(_, _)
RepliesSent(events, outputs) ==
    IF events = <<>> THEN <<>>
    ELSE LET e == Head(events)
             rest == RepliesSent(Tail(events), outputs)
         IN  IF /\ e.outcome = "success"
                /\ NodeMap(workflow, e.node).type.v = "reply_message"
                /\ e.node \in DOMAIN outputs
             THEN <<[content |-> outputs[e.node].content]>> \o rest
             ELSE rest

\* C22: the Result's messages_sent lists, in order, one entry with the
\* substituted content for every reply_message node the execution ran.
C22_RepliesListed ==
    \A p \in Procs :
        HasResult(p) =>
            results[p].messages_sent = RepliesSent(trace[p], results[p].outputs)

\* ------------------------------------------------------------- determinism
\* no node of the workflow does HTTP or tool I/O
NoIO ==
    \A i \in DOMAIN workflow.nodes :
        workflow.nodes[i].type.v \notin {"http_request", "tool_action"}

\* C23: two executions of the same workflow with the same trigger and
\* trigger_data, none of whose handlers does HTTP or tool I/O, return the
\* same executed_nodes and the same node outputs.
C23_Deterministic ==
    \A p, q \in Procs :
        (/\ NoIO
         /\ HasResult(p) /\ HasResult(q)
         /\ frame[p].trigger = frame[q].trigger
         /\ contexts[p].trigger_data = contexts[q].trigger_data) =>
            /\ results[p].executed_nodes = results[q].executed_nodes
            /\ results[p].outputs = results[q].outputs

\* ------------------------------------------------ retries and cancellation
\* the number of times the handler of node id was invoked by the call
RECURSIVE Attempts(_, _)
Attempts(events, id) ==
    IF events = <<>> THEN 0
    ELSE (IF Head(events).node = id /\ Head(events).outcome # "no_handler" THEN 1 ELSE 0)
             + Attempts(Tail(events), id)

\* C25: a node configured with retry = r > 0 whose handler failed has had
\* its handler invoked r + 1 times before the error policy is applied, and
\* is listed at most once in executed_nodes.
C25_RetriedBeforePolicy ==
    \A p \in Procs : \A i \in DOMAIN trace[p] :
        LET e == trace[p][i]
            n == NodeMap(workflow, e.node)
        IN  (/\ e.outcome \in {"failed", "raised"}
             /\ "retry" \in DOMAIN n.cfg
             /\ n.cfg.retry > 0) =>
                /\ Attempts(trace[p], e.node) = n.cfg.retry + 1
                /\ Cardinality({k \in DOMAIN contexts[p].executed_nodes :
                                   contexts[p].executed_nodes[k] = e.node}) <= 1

\* C26: an execution that was cancelled returns a Result with status
\* Cancelled whose errors hold a cancelled entry, and starts no handler
\* after the cancel.
C26_CancelledResult ==
    \A p \in Procs :
        (\E i \in DOMAIN trace[p] : trace[p][i].outcome = "cancelled") =>
            /\ trace[p][Len(trace[p])].outcome = "cancelled"
            /\ HasResult(p)
            /\ results[p].status = "cancelled"
            /\ \E i \in DOMAIN results[p].errors : results[p].errors[i].error = "cancelled"

\* ------------------------------------------------------------- termination
\* the nodes reachable from id along at most k edges
RECURSIVE Reachable(_, _, _)
Reachable(w, ids, k) ==
    IF k = 0 THEN ids
    ELSE Reachable(w, ids \cup {w.edges[i].target :
                                   i \in {j \in DOMAIN w.edges : w.edges[j].source \in ids}},
                   k - 1)

\* every edge joins two nodes of the workflow, and no node is reachable from
\* itself
AcyclicAndClosed(w) ==
    LET ids == {w.nodes[i].id : i \in DOMAIN w.nodes}
    IN  /\ \A i \in DOMAIN w.edges : w.edges[i].source \in ids /\ w.edges[i].target \in ids
        /\ \A id \in ids :
               id \notin Reachable(w, {w.edges[i].target :
                                          i \in {j \in DOMAIN w.edges : w.edges[j].source = id}},
                                   Len(w.nodes))

\* C28: the execution of a workflow whose graph is acyclic and whose edges
\* join existing nodes comes to its end, also when a node with several
\* incoming edges has a predecessor that is never executed.
C28_AcyclicTerminates ==
    \A p \in Procs :
        (AcyclicAndClosed(workflow) /\ pc[p] = "loop") ~> (pc[p] = "done")

\* ---------------------------------------------------------------- debugging
\* WorkflowManager.debug_workflow(workflow_id, trigger, trigger_data,
\* breakpoints, step_mode): the debugger is looked up or made;
\* debugger.set_breakpoint does not exist, so a call with breakpoints raises
\* AttributeError there; debugger.debug_execute does not exist either, its
\* AttributeError is caught and the call returns None.  No node is run.
DebugExecution(p, trigger, trigger_data, breakpoints, step_mode) ==
    /\ UNCHANGED <<exchange, scheduler_vars, evaluation, default_object>>
    /\ UNCHANGED <<workflows, bot_workflows, workflow_executors, scheduled_tasks, store,
                   execution_records, next_uuid, tasks, heap>>
    /\ MayCall(p)
    /\ debuggers' = debuggers \cup {GivenId}
    /\ debugger' = [debugger EXCEPT !.attached = TRUE,
                                    !.step_mode = IF breakpoints = {} THEN @ \/ step_mode ELSE @]
    /\ Return(p, IF breakpoints # {} THEN RaisedResult("AttributeError") ELSE NoResult)
    /\ frame' = [frame EXCEPT ![p] = Refused("debug")]
    /\ UNCHANGED <<workflow, status, executors, num_executors, executor_context, contexts,
                   active_executions, trace>>

\* WorkflowDebugger.add_breakpoint(node_id) on the manager's debugger
AddBreakpoint(node_id) ==
    /\ debugger.attached
    /\ debugger' = [debugger EXCEPT !.breakpoints = @ \cup {node_id}]
    /\ UNCHANGED <<executor_vars, manager_vars, exchange, scheduler_vars, evaluation>>

\* WorkflowDebugger.remove_breakpoint(node_id)
RemoveBreakpoint(node_id) ==
    /\ debugger.attached
    /\ debugger' = [debugger EXCEPT !.breakpoints = @ \ {node_id}]
    /\ UNCHANGED <<executor_vars, manager_vars, exchange, scheduler_vars, evaluation>>

\* WorkflowDebugger.enable_step_mode()
EnableStepMode ==
    /\ debugger.attached
    /\ debugger' = [debugger EXCEPT !.step_mode = TRUE]
    /\ UNCHANGED <<executor_vars, manager_vars, exchange, scheduler_vars, evaluation>>

\* WorkflowDebugger.disable_step_mode()
DisableStepMode ==
    /\ debugger.attached
    /\ debugger' = [debugger EXCEPT !.step_mode = FALSE]
    /\ UNCHANGED <<executor_vars, manager_vars, exchange, scheduler_vars, evaluation>>

\* the ids breakpoints are set on
BreakpointIds == {"s", "r", "r1"}

\* an active workflow whose nodes all succeed, executed through the manager
\* with and without a debugger
DebugSpecInit ==
    /\ Constructed(ValidatedWorkflows \cup ReplyWorkflows)
    /\ status = Member("active")

DebugNext ==
    \/ \E p \in Procs, call \in Calls : ExecuteWorkflow(p, call[1], call[2])
    \/ \E p \in Procs : RunNode(p)
    \/ \E p \in Procs : Drain(p)
    \/ \E p \in Procs, call \in DirectCalls, breakpoints \in {{}, {"s"}}, step_mode \in BOOLEAN :
          DebugExecution(p, call[1], call[2], breakpoints, step_mode)
    \/ \E node_id \in BreakpointIds : AddBreakpoint(node_id)
    \/ \E node_id \in BreakpointIds : RemoveBreakpoint(node_id)
    \/ EnableStepMode
    \/ DisableStepMode

DebugSpec == DebugSpecInit /\ [][DebugNext]_vars

\* C27: while the workflow has a debugger, no handler starts on a node that
\* is in the breakpoint set, or on any node in step mode, and a debug
\* execution asked to stop at a node does not run to its end unsuspended;
\* no step or continue is signalled in these behaviours.
C27_BreakpointSuspends ==
    [][\A p \in Procs :
          /\ Len(trace'[p]) > Len(trace[p]) =>
                ~(/\ debugger.attached
                  /\ \/ debugger.step_mode
                     \/ trace'[p][Len(trace'[p])].node \in debugger.breakpoints)
          /\ (pc[p] = "idle" /\ pc'[p] = "done" /\ frame'[p].via = "debug") =>
                (~debugger'.step_mode /\ results'[p].kind # "raised")]_vars

\* ------------------------------------------------------------ serialization
\* a result of a call that may raise
Ok(value) == [raised |-> FALSE, value |-> value]

Err(error) == [raised |-> TRUE, error |-> error]

\* the fields of WorkflowNode and WorkflowEdge the executor does not read
Named(n, name) == n @@ [name |-> name, description |-> NoneVal, position |-> NoneVal]

Identified(e, id) == e @@ [id |-> id]

\* an EdgeCondition with its required field type
Typed(c, type) == c @@ [type |-> type]

\* a member of WorkflowTriggerType assigned to the str field
\* EventStartConfig.trigger_type, and its .value
TriggerMember(v) == "<member " \o v \o ">"

IsTriggerMember(x) == \E v \in WorkflowTriggerTypeValues : x = TriggerMember(v)

TriggerValue(x) == CHOOSE v \in WorkflowTriggerTypeValues : x = TriggerMember(v)

\* a Workflow with the fields the serializer writes
FullWorkflow(workflow_status, trigger_types, nodes, edges) ==
    [id |-> "w1", name |-> "flow", description |-> NoneVal, version |-> 2,
     status |-> workflow_status, trigger_types |-> trigger_types, bot_id |-> "b1",
     tags |-> <<"t">>, category |-> NoneVal, variables |-> [v |-> "world"],
     nodes |-> nodes, edges |-> edges]

\* "config.name" where the model declares name with the default None
Attr(cfg, name) == Get(cfg, name, NoneVal)

\* config.retry is an int other than 0
RetryTruthy(cfg) == "retry" \in DOMAIN cfg /\ cfg.retry # NoRetry /\ cfg.retry # 0

\* d[key] = value under a condition
SetIf(cond, d, key, value) == IF cond THEN SetItem(d, key, value) ELSE d

\* WorkflowSerializer._condition_to_dict
ConditionToDict(condition) ==
    [type |-> condition.type, field |-> condition.field, value |-> condition.value,
     operator |-> condition.operator]

\* the attribute reads of _config_to_dict that raise AttributeError: any
\* read on a dict, .value on a str, a clause that is a dict
ConfigToDictRaises(n) ==
    LET t == n.type.v
    IN  \/ t = "event_start"
           /\ (AttrRaises(n, "trigger_type") \/ ~IsTriggerMember(n.cfg.trigger_type))
        \/ t \in {"schedule_start", "http_request", "json_processor", "reply_message",
                  "set_variable", "get_variable", "condition", "tool_action"}
           /\ n.shape = "dict"
        \/ t = "condition" /\ n.shape = "model"
           /\ \E i \in DOMAIN n.cfg.conditions : n.cfg.conditions[i].shape = "dict"

\* the common fields of _config_to_dict: only those that are truthy
CommonToDict(n) ==
    IF n.shape = "dict" THEN <<>>
    ELSE SetIf(Truthy(Attr(n.cfg, "error_handler")),
               SetIf(RetryTruthy(n.cfg),
                     SetIf(Truthy(Attr(n.cfg, "timeout")), <<>>, "timeout",
                           Attr(n.cfg, "timeout")),
                     "retry", Get(n.cfg, "retry", NoRetry)),
               "error_handler", Attr(n.cfg, "error_handler"))

\* WorkflowSerializer._config_to_dict for a node whose type is a member
ConfigToDict(n) ==
    LET t == n.type.v
        cfg == n.cfg
        common == CommonToDict(n)
    IN  CASE t = "event_start" ->
               SetIf(Truthy(Attr(cfg, "filters")),
                     SetItem(common, "trigger_type", TriggerValue(cfg.trigger_type)),
                     "filters", Attr(cfg, "filters"))
          [] t = "schedule_start" ->
               SetItem(SetItem(common, "cron_expression", cfg.cron_expression),
                       "timezone", Attr(cfg, "timezone"))
          [] t = "http_request" ->
               SetIf(Truthy(Attr(cfg, "auth")),
                     SetIf(Attr(cfg, "body") # NoneVal,
                           SetIf(Truthy(Attr(cfg, "headers")),
                                 SetItem(SetItem(common, "method", cfg.method), "url", cfg.url),
                                 "headers", Attr(cfg, "headers")),
                           "body", Attr(cfg, "body")),
                     "auth", Attr(cfg, "auth"))
          [] t = "json_processor" ->
               SetIf(Attr(cfg, "value") # NoneVal,
                     SetIf(Truthy(Attr(cfg, "path")),
                           SetItem(common, "operation", cfg.operation), "path",
                           Attr(cfg, "path")),
                     "value", Attr(cfg, "value"))
          [] t = "reply_message" ->
               SetIf(Truthy(Attr(cfg, "components")),
                     SetIf(Truthy(Attr(cfg, "reply_to")),
                           SetItem(common, "content", cfg.content), "reply_to",
                           Attr(cfg, "reply_to")),
                     "components", Attr(cfg, "components"))
          [] t \in {"set_variable", "get_variable"} ->
               SetIf(Attr(cfg, "default") # NoneVal,
                     SetIf(Attr(cfg, "value") # NoneVal,
                           SetItem(common, "variable_name", cfg.variable_name), "value",
                           Attr(cfg, "value")),
                     "default", Attr(cfg, "default"))
          [] t = "condition" ->
               SetIf(Truthy(Attr(cfg, "default_branch")),
                     SetItem(common, "conditions",
                             [i \in DOMAIN cfg.conditions |-> ConditionToDict(cfg.conditions[i])]),
                     "default_branch", Attr(cfg, "default_branch"))
          [] t = "tool_action" ->
               SetIf(Truthy(Attr(cfg, "parameters")),
                     SetItem(common, "tool_id", cfg.tool_id), "parameters",
                     Attr(cfg, "parameters"))
          [] OTHER -> common

\* WorkflowSerializer._node_to_dict: node.type.value raises on a str
NodeToDict(n) ==
    IF n.type.repr = "str" THEN Err("AttributeError")
    ELSE IF n.shape = "dict" /\ DOMAIN n.cfg = {}
    THEN Ok([id |-> n.id, type |-> n.type.v, name |-> n.name, description |-> n.description])
    ELSE IF ConfigToDictRaises(n) THEN Err("AttributeError")
    ELSE Ok(SetIf(Truthy(n.position),
                  [id |-> n.id, type |-> n.type.v, name |-> n.name,
                   description |-> n.description, config |-> ConfigToDict(n)],
                  "position", n.position))

\* WorkflowSerializer._edge_to_dict
EdgeToDict(edge) ==
    SetIf(edge.condition # NoCondition,
          SetIf(Truthy(edge.label),
                [id |-> edge.id, source |-> edge.source, target |-> edge.target],
                "label", edge.label),
          "condition",
          IF edge.condition # NoCondition THEN ConditionToDict(edge.condition) ELSE NoneVal)

\* WorkflowSerializer.to_dict, without the timestamps of "metadata"
ToDict(w) ==
    LET nodes == [i \in DOMAIN w.nodes |-> NodeToDict(w.nodes[i])]
    IN  IF w.status.repr = "str" THEN Err("AttributeError")
        ELSE IF \E i \in DOMAIN w.trigger_types : w.trigger_types[i].repr = "str"
        THEN Err("AttributeError")
        ELSE IF \E i \in DOMAIN nodes : nodes[i].raised THEN Err("AttributeError")
        ELSE Ok([id |-> w.id, name |-> w.name, description |-> w.description,
                 version |-> w.version, status |-> w.status.v,
                 trigger_types |-> [i \in DOMAIN w.trigger_types |-> w.trigger_types[i].v],
                 bot_id |-> w.bot_id, tags |-> w.tags, category |-> w.category,
                 variables |-> w.variables,
                 nodes |-> [i \in DOMAIN nodes |-> nodes[i].value],
                 edges |-> [i \in DOMAIN w.edges |-> EdgeToDict(w.edges[i])]])

\* WorkflowDeserializer._dict_to_condition, as a clause of a ConditionConfig
\* and as the condition of an edge
DictToClause(cond_data) ==
    Typed(ModelClause(Attr(cond_data, "field"), Attr(cond_data, "operator"),
                      Attr(cond_data, "value")), cond_data.type)

DictToCondition(cond_data) ==
    Typed(EdgeCondition(Attr(cond_data, "field"), Attr(cond_data, "operator"),
                        Attr(cond_data, "value")), cond_data.type)

\* the common fields _dict_to_config passes on: those that are not None
BaseKwargs(config_data) ==
    [timeout |-> Attr(config_data, "timeout"), retry |-> Get(config_data, "retry", NoRetry),
     error_handler |-> Attr(config_data, "error_handler")]

\* WorkflowDeserializer._dict_to_config: EventStartConfig is given a member
\* of WorkflowTriggerType for its str field, which validation rejects
DictToConfig(node_type, config_data) ==
    LET base == BaseKwargs(config_data)
    IN  CASE node_type = "event_start" ->
               IF "trigger_type" \in DOMAIN config_data THEN Err("ValidationError")
               ELSE Err("KeyError")
          [] node_type = "schedule_start" ->
               IF "cron_expression" \notin DOMAIN config_data THEN Err("KeyError")
               ELSE Ok(base @@ [cron_expression |-> config_data.cron_expression,
                                timezone |-> Get(config_data, "timezone", "UTC")])
          [] node_type = "http_request" ->
               IF ~({"method", "url"} \subseteq DOMAIN config_data) THEN Err("KeyError")
               ELSE Ok(base @@ [method |-> config_data.method, url |-> config_data.url,
                                headers |-> Attr(config_data, "headers"),
                                body |-> Attr(config_data, "body"),
                                auth |-> Attr(config_data, "auth")])
          [] node_type = "json_processor" ->
               IF "operation" \notin DOMAIN config_data THEN Err("KeyError")
               ELSE Ok(base @@ [operation |-> config_data.operation,
                                path |-> Attr(config_data, "path"),
                                value |-> Attr(config_data, "value")])
          [] node_type = "reply_message" ->
               IF "content" \notin DOMAIN config_data THEN Err("KeyError")
               ELSE Ok(base @@ [content |-> config_data.content,
                                reply_to |-> Attr(config_data, "reply_to"),
                                components |-> Attr(config_data, "components")])
          [] node_type = "set_variable" ->
               IF "variable_name" \notin DOMAIN config_data THEN Err("KeyError")
               ELSE Ok(base @@ [variable_name |-> config_data.variable_name,
                                value |-> Attr(config_data, "value"), default |-> NoneVal])
          [] node_type = "get_variable" ->
               IF "variable_name" \notin DOMAIN config_data THEN Err("KeyError")
               ELSE Ok(base @@ [variable_name |-> config_data.variable_name,
                                value |-> NoneVal, default |-> Attr(config_data, "default")])
          [] node_type = "condition" ->
               Ok(base @@ [conditions |->
                               IF "conditions" \in DOMAIN config_data
                               THEN [i \in DOMAIN config_data.conditions |->
                                        DictToClause(config_data.conditions[i])]
                               ELSE <<>>,
                           default_branch |-> Attr(config_data, "default_branch")])
          [] node_type = "tool_action" ->
               IF "tool_id" \notin DOMAIN config_data THEN Err("KeyError")
               ELSE Ok(base @@ [tool_id |-> config_data.tool_id,
                                parameters |-> Attr(config_data, "parameters")])
          [] OTHER -> Ok(base)

\* WorkflowDeserializer._dict_to_node: the node is built through validation
DictToNode(node_data) ==
    LET config == DictToConfig(node_data.type, Get(node_data, "config", <<>>))
    IN  IF config.raised THEN config
        ELSE Ok([id |-> node_data.id, type |-> UseEnumValues(Member(node_data.type)),
                 shape |-> "model", cfg |-> config.value, name |-> node_data.name,
                 description |-> Attr(node_data, "description"),
                 position |-> Attr(node_data, "position")])

\* WorkflowDeserializer._dict_to_edge
DictToEdge(edge_data) ==
    [id |-> edge_data.id, source |-> edge_data.source, target |-> edge_data.target,
     label |-> Attr(edge_data, "label"),
     condition |-> IF "condition" \in DOMAIN edge_data
                   THEN DictToCondition(edge_data.condition) ELSE NoCondition]

\* WorkflowDeserializer.from_dict: Workflow(...) validates status and
\* trigger_types, which are then held as strs
FromDict(workflow_data) ==
    LET nodes == [i \in DOMAIN workflow_data.nodes |-> DictToNode(workflow_data.nodes[i])]
    IN  IF \E i \in DOMAIN nodes : nodes[i].raised
        THEN Err(nodes[CHOOSE i \in DOMAIN nodes : nodes[i].raised].error)
        ELSE Ok([id |-> Attr(workflow_data, "id"), name |-> Attr(workflow_data, "name"),
                 description |-> Attr(workflow_data, "description"),
                 version |-> Get(workflow_data, "version", 1),
                 status |-> UseEnumValues(Member(Get(workflow_data, "status", "draft"))),
                 trigger_types |-> [i \in DOMAIN workflow_data.trigger_types |->
                                       UseEnumValues(Member(workflow_data.trigger_types[i]))],
                 bot_id |-> Attr(workflow_data, "bot_id"),
                 tags |-> Get(workflow_data, "tags", <<>>),
                 category |-> Attr(workflow_data, "category"),
                 variables |-> Attr(workflow_data, "variables"),
                 nodes |-> [i \in DOMAIN nodes |-> nodes[i].value],
                 edges |-> [i \in DOMAIN workflow_data.edges |->
                               DictToEdge(workflow_data.edges[i])]])

\* export: to_dict of a workflow
Export(w) ==
    /\ exchange = NoExchange
    /\ exchange' = LET d == ToDict(w)
                   IN  IF d.raised THEN [step |-> "export_raised", source |-> w, error |-> d.error]
                       ELSE [step |-> "exported", source |-> w, document |-> d.value]
    /\ UNCHANGED <<executor_vars, manager_vars, debugger, scheduler_vars, evaluation>>

\* import: from_dict of the exported dict
Import ==
    /\ exchange.step = "exported"
    /\ exchange' = LET r == FromDict(exchange.document)
                   IN  IF r.raised
                       THEN [step |-> "import_raised", source |-> exchange.source,
                             error |-> r.error]
                       ELSE [step |-> "imported", source |-> exchange.source,
                             loaded |-> r.value]
    /\ UNCHANGED <<executor_vars, manager_vars, debugger, scheduler_vars, evaluation>>

\* the nodes, edges, statuses and trigger lists of the exported workflows
ExportedNodes ==
    {ReplyMessage("a", "member"), ReplyMessage("a", "str"),
     EventStart("a", "member", "person_message"),
     EventStart("a", "member", TriggerMember("person_message")),
     HttpRequest("a", "member", NoneVal), HttpRequest("a", "member", "skip"),
     WithRetry(HttpRequest("a", "member", NoneVal), 0),
     WithRetry(HttpRequest("a", "member", NoneVal), 2),
     SetVariableModel("a", "member", NoneVal),
     [SetVariableModel("a", "member", NoneVal) EXCEPT !.cfg.default = "ok"],
     [SetVariableModel("a", "member", NoneVal) EXCEPT !.type = Member("get_variable")],
     JsonProcessorModel("a", "member", "set", "content", "ok"),
     Condition("a", "member", NoneVal,
               <<Typed(ModelClause("content", "equals", "hello"), "compare")>>),
     Condition("a", "member", NoneVal, <<DictClause("content", "equals", "hello")>>),
     ChatCommandBranch("a", "member", "/"),
     ScheduleStart("a", "member"), LoopNode("a", "member", "stop"),
     EndNode("a", "member"), EndNode("a", "str")}

ExportedEdges ==
    {E("a", "z"), EL("a", "z", "true"),
     WorkflowEdge("a", "z", NoneVal, Typed(EdgeCondition("content", "equals", "hello"), "compare"))}

ExportedWorkflows ==
    {FullWorkflow(workflow_status, trigger_types,
                  <<Named(n, "first"), Named(ReplyMessage("z", "member"), "last")>>,
                  <<Identified(e, "e1")>>) :
        workflow_status \in {Member("draft"), Member("active"), StrVal("active")},
        trigger_types \in {<<>>, <<Member("person_message")>>, <<StrVal("person_message")>>},
        n \in ExportedNodes, e \in ExportedEdges}

SerializerSpecInit ==
    /\ Init
    /\ workflow \in ValidatedWorkflows
    /\ status = Member("draft")

SerializerNext ==
    \/ \E w \in ExportedWorkflows : Export(w)
    \/ Import

SerializerSpec == SerializerSpecInit /\ [][SerializerNext]_vars

\* the value a config field has when the config does not carry it
DefaultOf(key) == IF key = "retry" THEN NoRetry ELSE NoneVal

SameConfig(a, b) ==
    \A key \in DOMAIN a \cup DOMAIN b : Get(a, key, DefaultOf(key)) = Get(b, key, DefaultOf(key))

SameNode(a, b) ==
    /\ a.id = b.id /\ a.type.v = b.type.v /\ a.name = b.name /\ a.position = b.position
    /\ SameConfig(a.cfg, b.cfg)

SameEdge(a, b) ==
    /\ a.id = b.id /\ a.source = b.source /\ a.target = b.target
    /\ a.label = b.label /\ a.condition = b.condition

\* equality of two workflows in what the serializer is to keep
SameWorkflow(a, b) ==
    /\ a.id = b.id /\ a.name = b.name /\ a.description = b.description
    /\ a.version = b.version /\ a.status.v = b.status.v /\ a.bot_id = b.bot_id
    /\ a.tags = b.tags /\ a.category = b.category /\ a.variables = b.variables
    /\ Len(a.trigger_types) = Len(b.trigger_types)
    /\ \A i \in DOMAIN a.trigger_types : a.trigger_types[i].v = b.trigger_types[i].v
    /\ Len(a.nodes) = Len(b.nodes)
    /\ \A i \in DOMAIN a.nodes : SameNode(a.nodes[i], b.nodes[i])
    /\ Len(a.edges) = Len(b.edges)
    /\ \A i \in DOMAIN a.edges : SameEdge(a.edges[i], b.edges[i])

\* C24: a workflow that is exported and imported again comes back equal in
\* its identity, status, trigger types, variables, nodes with their configs
\* and edges: neither step raises, and the loaded workflow is the same.
C24_RoundTrip ==
    /\ exchange.step \notin {"export_raised", "import_raised"}
    /\ exchange.step = "imported" => SameWorkflow(exchange.source, exchange.loaded)

\* ---------------------------------------------- bot index and persistence
\* no call of a manager or service operation is under way
Quiescent == \A t \in Tasks : tasks[t].step \in {"idle", "done"}

\* list.count(x)
Count(list, x) == Cardinality({i \in DOMAIN list : list[i] = x})

\* id is the id of a cached workflow bound to the bot b
BoundTo(id, b) == id \in DOMAIN workflows /\ workflows[id].bot_id = b

\* C29: between manager operations a workflow id is listed under a bot,
\* exactly once, if and only if the workflow is cached with that bot_id, and
\* no delete, bind or unbind has raised.
C29_BotIndexAgrees ==
    Quiescent =>
        /\ \A b \in DOMAIN bot_workflows : \A i \in DOMAIN bot_workflows[b] :
               /\ BoundTo(bot_workflows[b][i], b)
               /\ Count(bot_workflows[b], bot_workflows[b][i]) = 1
        /\ \A id \in DOMAIN workflows :
               Truthy(workflows[id].bot_id) =>
                   /\ workflows[id].bot_id \in DOMAIN bot_workflows
                   /\ Count(bot_workflows[workflows[id].bot_id], id) = 1
        /\ \A t \in Tasks :
               tasks[t].op \in {"delete_workflow", "bind_workflow_to_bot",
                                "unbind_workflow_from_bot"}
                   => tasks[t].result # "raised"

\* what a fresh manager caches when it initializes from the store
FreshWorkflows == [id \in DOMAIN store |-> LoadWorkflow(store[id])]

\* the same status, bot_id, trigger_types and version
SameSettings(a, b) ==
    /\ a.status.v = b.status.v
    /\ a.bot_id = b.bot_id
    /\ Len(a.trigger_types) = Len(b.trigger_types)
    /\ \A i \in DOMAIN a.trigger_types : a.trigger_types[i].v = b.trigger_types[i].v
    /\ a.version = b.version

\* C30: between manager operations a fresh manager initialized from the
\* store caches the same workflow ids as the live manager, each with the
\* same status, bot_id, trigger_types and version.
C30_FreshManagerAgrees ==
    Quiescent =>
        /\ DOMAIN FreshWorkflows = DOMAIN workflows
        /\ \A id \in DOMAIN workflows : SameSettings(workflows[id], FreshWorkflows[id])

\* --------------------------------------------------- what a handler writes
\* the call p ran the handler of a node in this step
HandlerRan(p) ==
    /\ Len(trace'[p]) > 0
    /\ trace'[p] # trace[p]
    /\ trace'[p][Len(trace'[p])].outcome \in {"success", "failed", "raised"}

\* C31: a step in which a node handler runs leaves the context's
\* trigger_data and the stored output of every other node as they were.
C31_HandlerFrame ==
    [][\A p \in Procs :
          (HandlerRan(p) /\ contexts[SelfContext(p)] # NoContext) =>
              LET before == contexts[SelfContext(p)]
                  after == contexts'[SelfContext(p)]
                  id == trace'[p][Len(trace'[p])].node
              IN  /\ after.trigger_data = before.trigger_data
                  /\ \A k \in DOMAIN before.node_outputs \ {id} :
                         after.node_outputs[k] = before.node_outputs[k]]_vars

\* ------------------------------------------------------- conditional edges
\* the edge carries no condition, or its condition evaluates true against
\* the output
EdgeHolds(edge, output) ==
    \/ edge.condition = NoCondition
    \/ /\ ~EdgeConditionRaises(edge.condition)
       /\ EvaluateEdgeCondition(edge.condition, output)

\* C32: after the handler of a node ran, a target is added to the queue only
\* through an edge without a condition or one whose condition is true against
\* the node's output; and a node that executes with a single incoming edge
\* carrying a condition has that condition true against the source's output.
C32_ConditionGuards ==
    [][\A p \in Procs :
          (HandlerRan(p) /\ contexts[SelfContext(p)] # NoContext) =>
              LET event == trace'[p][Len(trace'[p])]
                  id == event.node
                  node_outputs == contexts'[SelfContext(p)].node_outputs
                  returned == event.outcome \in {"success", "failed"}
                  incoming_edges == ReverseEdgeMap(workflow, id)
              IN  /\ \A t \in NodeIds(workflow) :
                         Count(frame'[p].queue, t) > Count(frame[p].queue, t) =>
                             \E i \in DOMAIN EdgeMap(workflow, id) :
                                 LET edge == EdgeMap(workflow, id)[i]
                                 IN  /\ edge.target = t
                                     /\ \/ edge.condition = NoCondition
                                        \/ returned /\ EdgeHolds(edge, node_outputs[id])
                  /\ (returned /\ Len(incoming_edges) = 1
                        /\ incoming_edges[1].condition # NoCondition) =>
                         /\ incoming_edges[1].source \in DOMAIN node_outputs
                         /\ EdgeHolds(incoming_edges[1],
                                      node_outputs[incoming_edges[1].source])]_vars

\* ---------------------------------------------------------------- scheduler
\* number of asyncio tasks the scheduler may create
MaxScheduled == 3

\* a schedule_start node whose config is a ScheduleStartConfig
ScheduleStartModel(id, repr) ==
    WorkflowNode(id, NT(repr, "schedule_start"), "model",
                 NodeConfig(NoneVal) @@ [cron_expression |-> "* * * * *", timezone |-> "UTC"])

\* the workflows handed to the scheduler: their id and their nodes
ScheduledWorkflows ==
    {[id |-> id, nodes |-> nodes] :
        id \in {"w", "w_x"},
        nodes \in {<<ScheduleStartModel("n", "member")>>,
                   <<ScheduleStartModel("n", "member"), ScheduleStartModel("m", "member")>>,
                   <<ScheduleStartModel("n", "str")>>,
                   <<ScheduleStart("n", "member")>>,
                   <<ReplyMessage("n", "member")>>}}

\* the nodes schedule_workflow creates a task for
IsScheduleNode(n) ==
    /\ n.type = Member("schedule_start")
    /\ ~AttrRaises(n, "cron_expression")

\* f"{workflow.id}_{node.id}"
TaskKey(workflow_id, node_id) == workflow_id \o "_" \o node_id

\* the loop of schedule_workflow from node i on: scheduler holds the dict and
\* the tasks so far
RECURSIVE ScheduleNodes(_, _, _)
ScheduleNodes(w, i, scheduler) ==
    IF i > Len(w.nodes) THEN scheduler
    ELSE LET n == w.nodes[i]
             task == Len(scheduler.tasks) + 1
         IN  IF IsScheduleNode(n)
             THEN ScheduleNodes(w, i + 1,
                      [dict |-> SetItem(scheduler.dict, TaskKey(w.id, n.id), task),
                       tasks |-> Append(scheduler.tasks,
                                        [workflow |-> w.id, node |-> n.id,
                                         cancelled |-> FALSE, ran |-> FALSE])])
             ELSE ScheduleNodes(w, i + 1, scheduler)

\* WorkflowScheduler.schedule_workflow(workflow): it has no await
ScheduleWorkflow(w) ==
    LET after == ScheduleNodes(w, 1, [dict |-> scheduled_workflows, tasks |-> asyncio_tasks])
    IN  /\ Len(after.tasks) <= MaxScheduled
        /\ scheduled_workflows' = after.dict
        /\ asyncio_tasks' = after.tasks
        /\ UNCHANGED <<executor_vars, manager_vars, debugger, exchange, evaluation>>

\* WorkflowScheduler.cancel_scheduled_workflow(workflow_id)
CancelScheduledWorkflow(workflow_id) ==
    LET tasks_to_cancel == {key \in DOMAIN scheduled_workflows :
                               StartsWith(key, workflow_id \o "_")}
    IN  /\ scheduled_workflows' =
               [key \in DOMAIN scheduled_workflows \ tasks_to_cancel |-> scheduled_workflows[key]]
        /\ asyncio_tasks' =
               [t \in DOMAIN asyncio_tasks |->
                   IF \E key \in tasks_to_cancel : scheduled_workflows[key] = t
                   THEN [asyncio_tasks[t] EXCEPT !.cancelled = TRUE]
                   ELSE asyncio_tasks[t]]
        /\ UNCHANGED <<executor_vars, manager_vars, debugger, exchange, evaluation>>

\* one round of _run_scheduled in task t: the sleep is over, an executor is
\* made and the workflow executed; an Exception of it is logged
RunScheduled(t) ==
    /\ t \in DOMAIN asyncio_tasks
    /\ ~asyncio_tasks[t].cancelled
    /\ asyncio_tasks' = [asyncio_tasks EXCEPT ![t].ran = TRUE]
    /\ UNCHANGED <<executor_vars, manager_vars, debugger, exchange, scheduled_workflows,
                   evaluation>>

SchedulerInit == Constructed(ReplyWorkflows) /\ status = Member("active")

SchedulerNext ==
    \/ \E w \in ScheduledWorkflows : ScheduleWorkflow(w)
    \/ \E workflow_id \in {"w", "w_x"} : CancelScheduledWorkflow(workflow_id)
    \/ \E t \in 1..MaxScheduled : RunScheduled(t)

SchedulerSpec == SchedulerInit /\ [][SchedulerNext]_vars

\* the tasks of workflow id that are running
RunningTasks(workflow_id) ==
    {t \in DOMAIN asyncio_tasks :
        asyncio_tasks[t].workflow = workflow_id /\ ~asyncio_tasks[t].cancelled}

\* C33: every running task is the value of a key of scheduled_workflows and
\* no two running tasks belong to the same node of the same workflow
C33_RunningTasksTracked ==
    /\ \A t \in DOMAIN asyncio_tasks :
          ~asyncio_tasks[t].cancelled =>
              \E key \in DOMAIN scheduled_workflows : scheduled_workflows[key] = t
    /\ \A t1, t2 \in DOMAIN asyncio_tasks :
          /\ ~asyncio_tasks[t1].cancelled /\ ~asyncio_tasks[t2].cancelled
          /\ asyncio_tasks[t1].workflow = asyncio_tasks[t2].workflow
          /\ asyncio_tasks[t1].node = asyncio_tasks[t2].node
          => t1 = t2

\* C33, the cancel part: when cancel_scheduled_workflow(w) returns, no task of
\* w is running
C33_CancelStopsWorkflow ==
    [][\A workflow_id \in {"w", "w_x"} :
          CancelScheduledWorkflow(workflow_id) =>
              \A t \in DOMAIN asyncio_tasks' :
                  asyncio_tasks'[t].workflow = workflow_id => asyncio_tasks'[t].cancelled]_vars

\* C34: cancel_scheduled_workflow(w) leaves the keys and the tasks of every
\* other workflow as they were
C34_CancelFrame ==
    [][\A workflow_id \in {"w", "w_x"} :
          CancelScheduledWorkflow(workflow_id) =>
              /\ \A t \in DOMAIN asyncio_tasks :
                    asyncio_tasks[t].workflow # workflow_id =>
                        asyncio_tasks'[t] = asyncio_tasks[t]
              /\ \A key \in DOMAIN scheduled_workflows :
                    asyncio_tasks[scheduled_workflows[key]].workflow # workflow_id =>
                        /\ key \in DOMAIN scheduled_workflows'
                        /\ scheduled_workflows'[key] = scheduled_workflows[key]]_vars

\* ------------------------------------------------------------- deactivation
\* the call p enters the handler of a node in this step
HandlerStarts(p) ==
    /\ pc[p] = "loop"
    /\ Len(trace'[p]) = Len(trace[p]) + 1
    /\ trace'[p][Len(trace'[p])].outcome \in {"success", "failed", "raised", "entered"}

\* C35: from the return of deactivate_workflow until the next activation no
\* call enters a node handler of the workflow
C35_NoHandlerAfterDeactivate ==
    [][status = Member("inactive") => \A p \in Procs : ~HandlerStarts(p)]_vars

\* ------------------------------------------------- the manager's executors
\* C36: between manager operations every id with an executor or a debugger
\* is the id of a cached workflow, and the executor of an id holds the
\* workflow object cached under that id, with maps built from the nodes and
\* edges that workflow has now.
C36_ExecutorsBound ==
    Quiescent =>
        /\ workflow_executors \subseteq DOMAIN workflows
        /\ debuggers \subseteq DOMAIN workflows
        /\ \A id \in workflow_executors :
              /\ heap.executor[id].workflow = heap.cached[id]
              /\ heap.executor[id].nodes = workflows[id].nodes
              /\ heap.executor[id].edges = workflows[id].edges

\* ------------------------------------------------------------ initialize
\* the ids of the rows that are bound to the bot b
StoredFor(b) == {id \in DOMAIN store : store[id].bot_id = b}

\* C37: when initialize returns, the cached ids are the ids of the store, the
\* list of each bot holds the ids of the rows bound to it, every row with
\* status active has an executor and every such row triggered by the
\* schedule has a task in scheduled_tasks.
C37_InitializeLoads ==
    [][\A t \in Tasks :
          InitializeResume(t) =>
              /\ DOMAIN workflows' = DOMAIN store'
              /\ \A b \in Bots :
                    (IF b \in DOMAIN bot_workflows' THEN Range(bot_workflows'[b]) ELSE {})
                        = StoredFor(b)'
              /\ \A id \in DOMAIN store' :
                    store'[id].status = "active" =>
                        /\ id \in workflow_executors'
                        /\ store'[id].trigger_type = "scheduled" => id \in scheduled_tasks']_vars

\* ---------------------------------------------------------------- templates
\* the longest content and the most variables of the templates
MaxTemplate == 2

\* the tokens of the contents: placeholders of the variables a and b, of the
\* name c that no variable has, and a text
TemplateTokens == {"{{a}}", "{{b}}", "{{c}}", "-"}

Templates == UNION {[1..n -> TemplateTokens] : n \in 1..MaxTemplate}

\* the values of the variables: a text, or a text that is a placeholder
TemplateValues == {"x", "{{a}}", "{{b}}"}

\* context.variables.items(): the variables in the order of the dict
TemplateItems ==
    {items \in UNION {[1..n -> {"a", "b"} \X TemplateValues] : n \in 0..MaxTemplate} :
        \A i, j \in DOMAIN items : items[i][1] = items[j][1] => i = j}

\* ReplyMessageNode.execute: the content after the substitution
RenderReply(content, items) ==
    /\ evaluation = NotApplied
    /\ evaluation' = [fn |-> "reply_message", content |-> content, items |-> items,
                      result |-> SubstituteTokens(content, items)]
    /\ UNCHANGED <<executor_vars, manager_vars, debugger, exchange, scheduler_vars>>

\* HttpRequestNode.execute: url and body after the substitution; an empty
\* body is left alone
RenderRequest(url, body, items) ==
    /\ evaluation = NotApplied
    /\ evaluation' = [fn |-> "http_request", content |-> url, body |-> body, items |-> items,
                      result |-> SubstituteTokens(url, items),
                      result_body |-> SubstituteTokens(body, items)]
    /\ UNCHANGED <<executor_vars, manager_vars, debugger, exchange, scheduler_vars>>

TemplateInit == Constructed(ReplyWorkflows) /\ status = Member("active")

TemplateNext ==
    \/ \E content \in Templates, items \in TemplateItems : RenderReply(content, items)
    \/ \E url \in Templates, body \in {<<>>, <<"{{a}}">>}, items \in TemplateItems :
          RenderRequest(url, body, items)

TemplateSpec == TemplateInit /\ [][TemplateNext]_vars

\* the value of the declared variable var_name
ValueOf(items, var_name) ==
    LET i == CHOOSE i \in DOMAIN items : items[i][1] = var_name
    IN  Tokens(PyStr(items[i][2]))

\* one pass over the tokens: the placeholder of a declared variable becomes
\* that variable's value, every other token stays, and the values are not
\* looked at again
RECURSIVE SinglePass(_, _)
SinglePass(tokens, items) ==
    IF tokens = <<>> THEN <<>>
    ELSE (IF \E i \in DOMAIN items : Head(tokens) = Placeholder(items[i][1])
          THEN ValueOf(items, CHOOSE n \in {"a", "b"} : Head(tokens) = Placeholder(n))
          ELSE <<Head(tokens)>>)
             \o SinglePass(Tail(tokens), items)

\* C38: the content a reply or a request is sent with is the single pass of
\* its template over the variables, in whatever order the variables are.
C38_SinglePassSubstitution ==
    evaluation.fn \in {"reply_message", "http_request"} =>
        evaluation.result = SinglePass(evaluation.content, evaluation.items)

\* ----------------------------------------------------------------- operators
\* the operands of the clauses: the str and the int of two numbers, a str
\* that is no number, and None
Operands == {"5", IntVal("5"), "9", IntVal("9"), "hello", NoneVal}

Operators == {"equals", "not_equals", "contains", "greater_than", "less_than"}

\* WorkflowExecutor._evaluate_edge_condition(condition, node_output) for a
\* condition on the field f, which the output has
EdgeConditionCall(operator, field_value, expected_value) ==
    LET condition == EdgeCondition("f", operator, expected_value)
    IN  /\ evaluation = NotApplied
        /\ evaluation' = [fn |-> "edge_condition", operator |-> operator,
                          field_value |-> field_value, value |-> expected_value,
                          raised |-> EdgeConditionRaises(condition),
                          result |-> /\ ~EdgeConditionRaises(condition)
                                     /\ EvaluateEdgeCondition(condition, [f |-> field_value])]
        /\ UNCHANGED <<executor_vars, manager_vars, debugger, exchange, scheduler_vars>>

\* one round of the loop of ConditionNode.execute, for a clause on the field
\* f of the output
ClauseCall(operator, field_value, compare_value) ==
    LET condition == DictClause("f", operator, compare_value)
    IN  /\ evaluation = NotApplied
        /\ evaluation' = [fn |-> "condition", operator |-> operator,
                          field_value |-> field_value, value |-> compare_value,
                          raised |-> ClauseRaises(condition, [f |-> field_value]),
                          result |-> /\ ~ClauseRaises(condition, [f |-> field_value])
                                     /\ ClauseResult(condition, [f |-> field_value])]
        /\ UNCHANGED <<executor_vars, manager_vars, debugger, exchange, scheduler_vars>>

OperatorInit == Constructed(ReplyWorkflows) /\ status = Member("active")

OperatorNext ==
    \/ \E operator \in Operators, field_value, expected_value \in Operands :
          EdgeConditionCall(operator, field_value, expected_value)
    \/ \E operator \in Operators, field_value, compare_value \in Operands :
          ClauseCall(operator, field_value, compare_value)

OperatorSpec == OperatorInit /\ [][OperatorNext]_vars

\* the clause as stated: equality of the string forms, order of the numbers,
\* false where an operand is no number
StatedResult(operator, field_value, value) ==
    CASE operator = "equals" -> PyStr(field_value) = PyStr(value)
      [] operator = "not_equals" -> PyStr(field_value) # PyStr(value)
      [] operator = "greater_than" ->
             ~FloatRaises(field_value) /\ ~FloatRaises(value) /\ Float(field_value) > Float(value)
      [] operator = "less_than" ->
             ~FloatRaises(field_value) /\ ~FloatRaises(value) /\ Float(field_value) < Float(value)
      [] OTHER -> FALSE

\* C39: a clause of an edge condition or of a condition node with one of the
\* four operators does not raise and has the stated result.
C39_OperatorSemantics ==
    (/\ evaluation.fn \in {"edge_condition", "condition"}
     /\ evaluation.operator \in {"equals", "not_equals", "greater_than", "less_than"})
        => /\ ~evaluation.raised
           /\ evaluation.result =
                  StatedResult(evaluation.operator, evaluation.field_value, evaluation.value)

\* ----------------------------------------------------------------- snapshots
\* WorkflowDebugger(executor).get_context_snapshot() on the executor e, called
\* while no call is running: {} without a context; otherwise a dict that
\* holds a new dict of the variables and the context's own executed_nodes,
\* node_outputs and errors objects. context is whose objects these are,
\* returned is what they held when the call returned.
GetContextSnapshot(e) ==
    /\ running = 0
    /\ evaluation = NotApplied
    /\ evaluation' =
           IF executor_context[e] = 0
           THEN [fn |-> "get_context_snapshot", context |-> 0, returned |-> <<>>]
           ELSE LET c == contexts[executor_context[e]]
                IN  [fn |-> "get_context_snapshot", context |-> executor_context[e],
                     returned |-> [current_node |-> c.current_node,
                                   executed_nodes |-> c.executed_nodes,
                                   variables |-> c.variables,
                                   node_outputs |-> c.node_outputs,
                                   errors |-> c.errors]]
    /\ UNCHANGED <<executor_vars, manager_vars, debugger, exchange, scheduler_vars>>

\* direct executions whose caller takes a snapshot of its executor
SnapshotNext ==
    \/ HandlerNext
    \/ \E p \in Procs : GetContextSnapshot(OwnExecutor(p))

SnapshotSpec == HandlerInit /\ [][SnapshotNext]_vars

\* the snapshot as its holder reads it now
SnapshotNow ==
    LET c == contexts[evaluation.context]
    IN  [current_node |-> evaluation.returned.current_node,
         executed_nodes |-> c.executed_nodes,
         variables |-> evaluation.returned.variables,
         node_outputs |-> c.node_outputs,
         errors |-> c.errors]

\* C40: a snapshot that was returned reads the same ever after
C40_SnapshotStable ==
    (evaluation.fn = "get_context_snapshot" /\ evaluation.context # 0)
        => SnapshotNow = evaluation.returned

====
